---- MODULE Spec2Model ----
(***************************************************************************)
(* A model of cackle's permission Checker (src/src/checker.rs).            *)
(*                                                                         *)
(* Rust Strings are modelled as sequences of characters, so that building  *)
(* a prefix by pushing "::" and a name part is a real computation.         *)
(* HashMaps are functions with a finite domain, Vecs are sequences,        *)
(* HashSets are sets.  PermId and CrateId are the 0-based indices of the   *)
(* code; a Vec v is read at index i as v[i + 1].                           *)
(***************************************************************************)
EXTENDS Integers, Sequences, FiniteSets, TLC

VARIABLES
    config,     \* the crate::config::Config handed to Checker::from_config
    checker,    \* the Checker object: a record of its six fields
    query,      \* the last apis_for_path call made on its own and its result
    calls,      \* history: the path_used calls made so far, in call order
    reported,   \* history: the crate ids report_crate_used was called with
    id_calls,   \* history: the perm_id and crate_id_from_name calls so far,
                \* each with the id it returned
    metadata,   \* the packages cargo metadata lists
    crate_index,\* the CrateIndex built from them
    problems,   \* the ProblemList
    observed,   \* the last operation applied to the problems and its result
    driver,     \* invoke_cargo_build: where its loop stands, and its locals
    cargo_process,  \* the cargo process and what it has written
    output_threads, \* the threads that collect cargo's stdout and stderr
    connections,    \* the subprocesses' connections and their handler threads
    channels,   \* the error channel and the abort channel
    ui          \* the ProblemsUi of the terminal user interface

checkerVars == <<config, checker, query, calls, reported>>

problemVars == <<metadata, crate_index, problems, observed>>

proxyVars == <<driver, cargo_process, output_threads, connections, channels>>

vars == <<config, checker, query, calls, reported, id_calls,
          metadata, crate_index, problems, observed,
          driver, cargo_process, output_threads, connections, channels, ui>>

----------------------------------------------------------------------------
(* Bounds and input sets *)

\* Longest symbol path (number of name parts) and longest rule prefix.
MaxPathLen == 2

\* Largest number of include/exclude rules in a configuration.
MaxRules == 3

\* Name parts of a symbol: non-empty strings that contain no "::".
Parts == {<<"a">>, <<"b">>}

PermNames == {"env", "fs"}

\* The separator pushed between two name parts.
Sep == <<":", ":">>

Paths == UNION {[1..n -> Parts] : n \in 0..MaxPathLen}

\* parts.join("::")
RECURSIVE Join(_)
Join(parts) ==
    IF Len(parts) = 0 THEN <<>>
    ELSE IF Len(parts) = 1 THEN parts[1]
    ELSE Join(SubSeq(parts, 1, Len(parts) - 1)) \o Sep \o parts[Len(parts)]

\* The prefixes a configuration can name in an include or exclude list:
\* every path that starts with the part "a".  (The parts are
\* interchangeable, and a prefix that is no prefix of the path asked about
\* never matches, whatever its parts.)
Keys == {Join(p) : p \in {q \in Paths \ {<<>>} : q[1] = <<"a">>}}

Range(s) == {s[i] : i \in DOMAIN s}

\* Some enumeration of a finite set as a sequence without repetition.
RECURSIVE SetToSeq(_)
SetToSeq(S) ==
    IF S = {} THEN <<>>
    ELSE LET x == CHOOSE y \in S : TRUE
         IN <<x>> \o SetToSeq(S \ {x})

\* The sequence s restricted to the members of S, order kept.
Restrict(s, S) == SelectSeq(s, LAMBDA x : x \in S)

----------------------------------------------------------------------------
(* Configurations: config.perms and config.crates are maps that            *)
(* from_config iterates; they are modelled as the sequences of entries in  *)
(* iteration order (ascending by name).                                    *)

PermOrder == <<"env", "fs">>

Rules == [perm : PermNames, kind : {"include", "exclude"}, prefix : Keys]

RuleSeq == SetToSeq(Rules)

\* The sets of at most k positions of RuleSeq, each built in ascending order.
RECURSIVE IndexSets(_)
IndexSets(k) ==
    IF k = 0 THEN {{}}
    ELSE LET prev == IndexSets(k - 1)
         IN prev \cup UNION {{S \cup {i} : i \in {j \in 1..Len(RuleSeq) :
                                                     \A x \in S : x < j}} :
                             S \in prev}

\* The sets of at most k rules.
RuleSets(k) == {{RuleSeq[i] : i \in S} : S \in IndexSets(k)}

PrefixesOf(rules, perm, kind) ==
    {r.prefix : r \in {x \in rules : x.perm = perm /\ x.kind = kind}}

\* The [perm.<name>] sections of a configuration holding the given rules.
PermsOf(rules) ==
    LET names == Restrict(PermOrder, {r.perm : r \in rules})
    IN [i \in DOMAIN names |->
            [name |-> names[i],
             include |-> SetToSeq(PrefixesOf(rules, names[i], "include")),
             exclude |-> SetToSeq(PrefixesOf(rules, names[i], "exclude"))]]

----------------------------------------------------------------------------
(* The Checker *)

None == "None"

\* Checker::default()
DefaultChecker ==
    [permission_names |-> <<>>,
     permission_name_to_id |-> <<>>,
     inclusions |-> <<>>,
     exclusions |-> <<>>,
     crate_infos |-> <<>>,
     crate_name_to_index |-> <<>>]

\* CrateInfo::default()
DefaultCrateInfo ==
    [name |-> None,
     has_config |-> FALSE,
     used |-> FALSE,
     allowed_perms |-> {},
     unused_allowed_perms |-> {},
     disallowed_usage |-> <<>>]

UNKNOWN_CRATE_ID == 0

\* Mutant of perm_id: a new id is allocated on every call.
perm_id_Reallocates(ck, permission) ==
    LET id == Len(ck.permission_names)
        map == ck.permission_name_to_id
    IN [checker |->
           [ck EXCEPT !.permission_names = Append(@, permission),
                      !.permission_name_to_id =
                          [n \in DOMAIN map \cup {permission} |->
                              IF n = permission THEN id ELSE map[n]]],
        id |-> id]

\* perm_id: the id of a permission name, allocated on first use.
\* Yields the checker after the call and the id returned.
perm_id(ck, permission) ==
    IF permission \in DOMAIN ck.permission_name_to_id
    THEN [checker |-> ck, id |-> ck.permission_name_to_id[permission]]
    ELSE LET id == Len(ck.permission_names)
         IN [checker |->
                [ck EXCEPT !.permission_names = Append(@, permission),
                           !.permission_name_to_id = @ @@ (permission :> id)],
             id |-> id]

permission_name(ck, id) == ck.permission_names[id + 1]

\* Mutant of crate_id_from_name: the new CrateInfo is left without its name.
crate_id_from_name_Unnamed(ck, crate_name) ==
    IF crate_name \in DOMAIN ck.crate_name_to_index
    THEN [checker |-> ck, id |-> ck.crate_name_to_index[crate_name]]
    ELSE LET id == Len(ck.crate_infos)
         IN [checker |->
                [ck EXCEPT !.crate_name_to_index = @ @@ (crate_name :> id),
                           !.crate_infos = Append(@, DefaultCrateInfo)],
             id |-> id]

\* crate_id_from_name: the id of a crate name, allocated on first use.
crate_id_from_name(ck, crate_name) ==
    IF crate_name \in DOMAIN ck.crate_name_to_index
    THEN [checker |-> ck, id |-> ck.crate_name_to_index[crate_name]]
    ELSE LET id == Len(ck.crate_infos)
         IN [checker |->
                [ck EXCEPT !.crate_name_to_index = @ @@ (crate_name :> id),
                           !.crate_infos =
                               Append(@, [DefaultCrateInfo EXCEPT !.name = crate_name])],
             id |-> id]

\* map.entry(key).or_default().push(v)
PushEntry(map, key, v) ==
    IF key \in DOMAIN map
    THEN [map EXCEPT ![key] = Append(@, v)]
    ELSE map @@ (key :> <<v>>)

RECURSIVE PushAll(_, _, _)
PushAll(map, prefixes, id) ==
    IF prefixes = <<>> THEN map
    ELSE PushAll(PushEntry(map, Head(prefixes), id), Tail(prefixes), id)

\* from_config, first loop: the permissions and their prefixes.
RECURSIVE AddPerms(_, _)
AddPerms(ck, perms) ==
    IF perms = <<>> THEN ck
    ELSE LET api == Head(perms)
             r == perm_id(ck, api.name)
         IN AddPerms([r.checker EXCEPT
                          !.inclusions = PushAll(@, api.include, r.id),
                          !.exclusions = PushAll(@, api.exclude, r.id)],
                     Tail(perms))

\* Mutant of Allow: the permission is entered as unused but not as allowed.
Allow_OnlyUnused(crate_info, id) ==
    [crate_info EXCEPT !.unused_allowed_perms = @ \cup {id}]

\* from_config: one permission of a crate's allow list is entered in both
\* of its sets.
Allow(crate_info, id) ==
    [crate_info EXCEPT !.allowed_perms = @ \cup {id},
                       !.unused_allowed_perms = @ \cup {id}]

\* from_config, innermost loop: the permissions one crate is allowed.
RECURSIVE AddAllowed(_, _, _)
AddAllowed(ck, crate_id, allow) ==
    IF allow = <<>> THEN ck
    ELSE LET r == perm_id(ck, Head(allow))
         IN AddAllowed([r.checker EXCEPT
                            !.crate_infos[crate_id + 1] = Allow(@, r.id)],
                       crate_id, Tail(allow))

\* from_config, second loop: the crates the configuration mentions.
RECURSIVE AddCrates(_, _)
AddCrates(ck, crates) ==
    IF crates = <<>> THEN ck
    ELSE LET c == Head(crates)
             r == crate_id_from_name(ck, c.name)
             ck1 == [r.checker EXCEPT !.crate_infos[r.id + 1].has_config = TRUE]
         IN AddCrates(AddAllowed(ck1, r.id, c.allow), Tail(crates))

from_config(cfg) ==
    LET ck0 == [DefaultChecker EXCEPT !.crate_infos = Append(@, DefaultCrateInfo)]
    IN AddCrates(AddPerms(ck0, cfg.perms), cfg.crates)

\* Mutant of MatchPrefix: the exclusions are removed before the inclusions
\* are added.
MatchPrefix_ExcludeFirst(ck, name, matched) ==
    LET inc == IF name \in DOMAIN ck.inclusions THEN ck.inclusions[name] ELSE <<>>
        exc == IF name \in DOMAIN ck.exclusions THEN ck.exclusions[name] ELSE <<>>
    IN (matched \ Range(exc)) \cup Range(inc)

\* Mutant of MatchPrefix: the exclusions are never removed.
MatchPrefix_NoExclude(ck, name, matched) ==
    LET inc == IF name \in DOMAIN ck.inclusions THEN ck.inclusions[name] ELSE <<>>
    IN matched \cup Range(inc)

\* Mutant of MatchPrefix: the two tables are read the wrong way round.
MatchPrefix_SwappedTables(ck, name, matched) ==
    LET inc == IF name \in DOMAIN ck.exclusions THEN ck.exclusions[name] ELSE <<>>
        exc == IF name \in DOMAIN ck.inclusions THEN ck.inclusions[name] ELSE <<>>
    IN (matched \cup Range(inc)) \ Range(exc)

\* Mutant of MatchPrefix: a prefix that some permission excludes clears
\* every permission matched so far.
MatchPrefix_ExcludeClears(ck, name, matched) ==
    LET inc == IF name \in DOMAIN ck.inclusions THEN ck.inclusions[name] ELSE <<>>
        exc == IF name \in DOMAIN ck.exclusions THEN ck.exclusions[name] ELSE <<>>
    IN IF exc # <<>> THEN {} ELSE matched \cup Range(inc)

\* One iteration of the loop of apis_for_path, once `name` is the prefix
\* that ends with the current name part: add the permissions that include
\* the prefix, then remove those that exclude it.
MatchPrefix(ck, name, matched) ==
    LET inc == IF name \in DOMAIN ck.inclusions THEN ck.inclusions[name] ELSE <<>>
        exc == IF name \in DOMAIN ck.exclusions THEN ck.exclusions[name] ELSE <<>>
    IN (matched \cup Range(inc)) \ Range(exc)

\* Mutant of PushPart: the separator is never pushed.
PushPart_NoSeparator(name, name_part) == name \o name_part

\* The prefix after the next name part has been pushed.
PushPart(name, name_part) ==
    (IF name # <<>> THEN name \o Sep ELSE name) \o name_part

RECURSIVE ApisLoop(_, _, _, _)
ApisLoop(ck, name_parts, name, matched) ==
    IF name_parts = <<>> THEN matched
    ELSE LET next == PushPart(name, Head(name_parts))
         IN ApisLoop(ck, Tail(name_parts), next, MatchPrefix(ck, next, matched))

apis_for_path(ck, name_parts) == ApisLoop(ck, name_parts, <<>>, {})

\* The names of a set of permission ids.
NamesOf(ck, ids) == {permission_name(ck, id) : id \in ids}

\* Mutant of RecordUsage: the entry is replaced instead of extended.
RecordUsage_Overwrites(disallowed_usage, id, usage) ==
    [k \in (DOMAIN disallowed_usage) \cup {id} |->
        IF k = id THEN <<usage>> ELSE disallowed_usage[k]]

\* disallowed_usage.entry(perm_id).or_default().push(usage)
RecordUsage(disallowed_usage, id, usage) ==
    PushEntry(disallowed_usage, id, usage)

\* Mutant of permission_id_used: a usage is recorded whether or not the
\* permission is allowed.
permission_id_used_AlwaysRecords(ck, crate_id, id, usage) ==
    [ck EXCEPT !.crate_infos[crate_id + 1] =
        [@ EXCEPT !.unused_allowed_perms = @ \ {id},
                  !.disallowed_usage = PushEntry(@, id, usage)]]

\* Mutant of permission_id_used: the permission leaves unused_allowed_perms
\* only on the branch that records a usage.
permission_id_used_RemovesWhenDisallowed(ck, crate_id, id, usage) ==
    LET crate_info == ck.crate_infos[crate_id + 1]
    IN IF id \notin crate_info.allowed_perms
       THEN [ck EXCEPT !.crate_infos[crate_id + 1] =
                [crate_info EXCEPT !.unused_allowed_perms = @ \ {id},
                                   !.disallowed_usage = PushEntry(@, id, usage)]]
       ELSE ck

permission_id_used(ck, crate_id, id, usage) ==
    LET crate_info == ck.crate_infos[crate_id + 1]
        removed == [crate_info EXCEPT !.unused_allowed_perms = @ \ {id}]
    IN IF id \notin crate_info.allowed_perms
       THEN [ck EXCEPT !.crate_infos[crate_id + 1] =
                [removed EXCEPT !.disallowed_usage = RecordUsage(@, id, usage)]]
       ELSE [ck EXCEPT !.crate_infos[crate_id + 1] = removed]

\* The loop of path_used over the HashSet of matched permissions.  The
\* iteration order of the set is unspecified; each permission touches only
\* its own element of unused_allowed_perms and its own key of
\* disallowed_usage, so every order gives the same checker.
RECURSIVE UseAll(_, _, _, _)
UseAll(ck, crate_id, ids, usage) ==
    IF ids = {} THEN ck
    ELSE LET id == CHOOSE x \in ids : TRUE
         IN UseAll(permission_id_used(ck, crate_id, id, usage),
                   crate_id, ids \ {id}, usage)

\* path_used, with `usage` the value compute_usage_fn returns.
path_used(ck, crate_id, name_parts, usage) ==
    UseAll(ck, crate_id, apis_for_path(ck, name_parts), usage)

\* Whether path_used calls compute_usage_fn at all.
ComputesUsage(ck, crate_id, name_parts) ==
    \E id \in apis_for_path(ck, name_parts) :
        id \notin ck.crate_infos[crate_id + 1].allowed_perms

report_crate_used(ck, crate_id) ==
    [ck EXCEPT !.crate_infos[crate_id + 1].used = TRUE]

\* Mutant of NotInTree: the crate is listed whether or not the
\* configuration mentions it.
NotInTree_IgnoresConfig(crate_info) == ~crate_info.used

\* check_unused, the test that lists a crate under unknown_crates.
NotInTree(crate_info) == ~crate_info.used /\ crate_info.has_config

\* check_unused, the loop over crate_infos from index i on.
RECURSIVE UnusedFrom(_, _, _)
UnusedFrom(ck, i, unused_config) ==
    IF i > Len(ck.crate_infos) THEN unused_config
    ELSE LET crate_info == ck.crate_infos[i]
             listed == IF NotInTree(crate_info)
                       THEN [unused_config EXCEPT
                                !.unknown_crates = Append(@, crate_info.name)]
                       ELSE unused_config
             noted == IF crate_info.unused_allowed_perms # {}
                      THEN [listed EXCEPT !.unused_allow_apis =
                              [n \in (DOMAIN @) \ {crate_info.name} |-> @[n]]
                              @@ (crate_info.name :>
                                    NamesOf(ck, crate_info.unused_allowed_perms))]
                      ELSE listed
         IN IF crate_info.name = None
            THEN UnusedFrom(ck, i + 1, unused_config)
            ELSE UnusedFrom(ck, i + 1, noted)

\* UnusedConfig::default()
DefaultUnusedConfig == [unknown_crates |-> <<>>, unused_allow_apis |-> <<>>]

\* check_unused: Ok(()) or Err(unused_config).
check_unused(ck) ==
    LET unused_config == UnusedFrom(ck, 1, DefaultUnusedConfig)
    IN IF unused_config = DefaultUnusedConfig
       THEN [ok |-> TRUE]
       ELSE [ok |-> FALSE, err |-> unused_config]

\* CanContinueResponse
Deny == "Deny"

Proceed == "Proceed"

\* Mutant of report_problems: the crate without a name is passed over.
report_problems_SkipsUnknown(ck) ==
    IF \E i \in DOMAIN ck.crate_infos :
          /\ ck.crate_infos[i].name # None
          /\ DOMAIN ck.crate_infos[i].disallowed_usage # {}
    THEN Deny ELSE Proceed

\* report_problems: `failed` is set by every crate_info whose
\* disallowed_usage is not empty.  The lines it prints on the way (at most
\* usage_report_cap usages per permission) do not enter the response.
report_problems(ck) ==
    IF \E i \in DOMAIN ck.crate_infos :
          DOMAIN ck.crate_infos[i].disallowed_usage # {}
    THEN Deny ELSE Proceed


----------------------------------------------------------------------------
(* Specification SpecApis: a checker is built from a configuration and     *)
(* asked for the permissions of one path after another (the shape of       *)
(* tests::assert_perms).                                                   *)

NoQuery == [asked |-> FALSE]

\* The part of the state that holds the crate index and the problems, when
\* no package and no problem has been seen.
NoObservation == [op |-> "none"]

NoProblems ==
    /\ metadata = <<>>
    /\ crate_index = <<>>
    /\ problems = <<>>
    /\ observed = NoObservation

\* No build is running.
NoProxy ==
    /\ driver = [pc |-> "not called"]
    /\ cargo_process = [state |-> "not spawned"]
    /\ output_threads = <<>>
    /\ connections = <<>>
    /\ channels = <<>>

\* No user interface is shown.
NoUi == ui = [shown |-> FALSE]

\* Any rules up to MaxRules, and one package that is allowed every permission
\* (next to the unknown crate, which is allowed none).
ApisConfigs ==
    {[perms |-> PermsOf(rules),
      crates |-> <<[name |-> "c1", allow |-> SetToSeq(PermNames)]>>] :
        rules \in RuleSets(MaxRules)}

InitApis ==
    /\ config \in ApisConfigs
    /\ checker = from_config(config)
    /\ query = NoQuery
    /\ calls = <<>>
    /\ reported = {}
    /\ id_calls = <<>>
    /\ NoProblems
    /\ NoProxy
    /\ NoUi

\* assert_perms builds its own checker and asks it one path.
AssertPerms ==
    \E path \in Paths :
        /\ query = NoQuery
        /\ query' = [asked |-> TRUE, path |-> path,
                     apis |-> apis_for_path(checker, path)]
        /\ UNCHANGED <<config, checker, calls, reported, id_calls, problemVars, proxyVars, ui>>

NextApis == AssertPerms

SpecApis == InitApis /\ [][NextApis]_vars

----------------------------------------------------------------------------
(* Specification Spec: a checker is built from a configuration and then    *)
(* takes crate_id_from_name, report_crate_used and path_used calls in any  *)
(* order.                                                                  *)

\* Largest number of path_used calls in a run.
MaxCalls == 2

CrateNames == {"c1", "c2"}

CrateOrder == <<"c1", "c2">>

\* What compute_usage_fn can return, and the mark of a call that never
\* called it.
Usages == {"u1", "u2"}

NotComputed == "not computed"

\* The permissions of tests::test_apis_for_path, with "a" for std::env and
\* "a::b" for std::env::var.
TestRules ==
    {[perm |-> "fs", kind |-> "include", prefix |-> <<"a">>],
     [perm |-> "fs", kind |-> "exclude", prefix |-> <<"a", ":", ":", "b">>],
     [perm |-> "env", kind |-> "include", prefix |-> <<"a">>]}

\* The symbol paths the crates are reported to use: std::env (both
\* permissions), std::env::var (env alone) and a path that no rule mentions.
UsedPaths ==
    {<<(<<"a">>)>>, <<(<<"a">>), (<<"b">>)>>, <<(<<"b">>)>>}

\* The [pkg.<name>] sections that allow each configured crate the given
\* permissions.
CratesOf(allow) ==
    LET names == Restrict(CrateOrder, DOMAIN allow)
    IN [i \in DOMAIN names |->
            [name |-> names[i], allow |-> SetToSeq(allow[names[i]])]]

CheckerConfigs ==
    {[perms |-> PermsOf(TestRules), crates |-> CratesOf(allow)] :
        allow \in UNION {[D -> SUBSET PermNames] : D \in SUBSET CrateNames}}

CrateIds(ck) == 0..(Len(ck.crate_infos) - 1)

Init ==
    /\ config \in CheckerConfigs
    /\ checker = from_config(config)
    /\ query = NoQuery
    /\ calls = <<>>
    /\ reported = {}
    /\ id_calls = <<>>
    /\ NoProblems
    /\ NoProxy
    /\ NoUi

CrateIdFromName ==
    \E crate_name \in CrateNames :
        /\ checker' = crate_id_from_name(checker, crate_name).checker
        /\ UNCHANGED <<config, query, calls, reported, id_calls, problemVars, proxyVars, ui>>

\* report_crate_used, for a crate id that crate_id_from_name returned.
ReportCrateUsed ==
    \E crate_id \in CrateIds(checker) \ {UNKNOWN_CRATE_ID} :
        /\ checker' = report_crate_used(checker, crate_id)
        /\ reported' = reported \cup {crate_id}
        /\ UNCHANGED <<config, query, calls, id_calls, problemVars, proxyVars, ui>>

PathUsed ==
    /\ Len(calls) < MaxCalls
    /\ \E crate_id \in CrateIds(checker) : \E name_parts \in UsedPaths :
         \E usage \in (IF ComputesUsage(checker, crate_id, name_parts)
                       THEN Usages ELSE {NotComputed}) :
            /\ checker' = path_used(checker, crate_id, name_parts, usage)
            /\ calls' = Append(calls, [crate_id |-> crate_id,
                                       name_parts |-> name_parts,
                                       usage |-> usage])
            /\ UNCHANGED <<config, query, reported, id_calls, problemVars, proxyVars, ui>>

Next == CrateIdFromName \/ ReportCrateUsed \/ PathUsed

Spec == Init /\ [][Next]_vars

----------------------------------------------------------------------------
(* Specification SpecIds: a checker is built from a configuration and then *)
(* asked for permission ids and crate ids by name, in any order; every     *)
(* call is logged with the id it returned.                                 *)

\* Largest number of logged perm_id and crate_id_from_name calls in a run.
MaxIdCalls == 3

\* The names asked for: those of the configurations and others.
AskedPermNames == PermNames \cup {"net", "proc"}

AskedCrateNames == CrateNames \cup {"c3"}

\* The configurations of Spec, and the same [pkg] sections with no [api]
\* section, where from_config meets each permission first in an allow list.
IdConfigs ==
    CheckerConfigs
      \cup {[cfg EXCEPT !.perms = <<>>] : cfg \in CheckerConfigs}

InitIds ==
    /\ config \in IdConfigs
    /\ checker = from_config(config)
    /\ query = NoQuery
    /\ calls = <<>>
    /\ reported = {}
    /\ id_calls = <<>>
    /\ NoProblems
    /\ NoProxy
    /\ NoUi

PermId ==
    /\ Len(id_calls) < MaxIdCalls
    /\ \E permission \in AskedPermNames :
          LET r == perm_id(checker, permission)
          IN /\ checker' = r.checker
             /\ id_calls' = Append(id_calls, [fn |-> "perm_id",
                                              name |-> permission, id |-> r.id])
             /\ UNCHANGED <<config, query, calls, reported, problemVars, proxyVars, ui>>

CrateId ==
    /\ Len(id_calls) < MaxIdCalls
    /\ \E crate_name \in AskedCrateNames :
          LET r == crate_id_from_name(checker, crate_name)
          IN /\ checker' = r.checker
             /\ id_calls' = Append(id_calls, [fn |-> "crate_id_from_name",
                                              name |-> crate_name, id |-> r.id])
             /\ UNCHANGED <<config, query, calls, reported, problemVars, proxyVars, ui>>

NextIds == PermId \/ CrateId

SpecIds == InitIds /\ [][NextIds]_vars

----------------------------------------------------------------------------
(* Packages and crate selections (src/src/crate_index.rs).  A name, a      *)
(* version and a rendered message are Strings, sequences of characters.    *)

\* Option, for the values that are not Strings.
Nothing == [some |-> FALSE]

Some(x) == [some |-> TRUE, value |-> x]

\* The character U+0060 (grave accent), which the messages put around
\* names.
Grave == "U+0060"

\* cargo_metadata::semver::Version without pre-release and build metadata.
Version(major, minor, patch) ==
    [major |-> major, minor |-> minor, patch |-> patch]

\* The decimal digits of a number, as u64's Display writes them.
RECURSIVE Decimal(_)
Decimal(n) ==
    LET digit == <<"0", "1", "2", "3", "4", "5", "6", "7", "8", "9">>
    IN IF n < 10 THEN <<digit[n + 1]>>
       ELSE Decimal(n \div 10) \o <<digit[(n % 10) + 1]>>

\* Display for Version: major.minor.patch
DisplayVersion(version) ==
    Decimal(version.major) \o <<".">> \o Decimal(version.minor)
      \o <<".">> \o Decimal(version.patch)

\* Ord for Version
VersionLess(a, b) ==
    \/ a.major < b.major
    \/ a.major = b.major /\ a.minor < b.minor
    \/ a.major = b.major /\ a.minor = b.minor /\ a.patch < b.patch

\* Path::parent of a path given by its components, the root "/" first in
\* an absolute path: no parent for the root and for the empty path.
Parent(path) ==
    IF path = <<>> \/ path = <<"/">> THEN Nothing
    ELSE Some(SubSeq(path, 1, Len(path) - 1))

\* name_counts of CrateIndex::new: the number of packages with one name.
NameCount(packages, name) ==
    Cardinality({i \in DOMAIN packages : packages[i].name = name})

\* Mutant of NewPackageId: every name counts as unique.
NewPackageId_AlwaysUnique(packages, package) ==
    [name |-> package.name,
     version |-> package.version,
     name_is_unique |-> TRUE]

\* The PackageId that CrateIndex::new builds for a package.
NewPackageId(packages, package) ==
    [name |-> package.name,
     version |-> package.version,
     name_is_unique |-> NameCount(packages, package.name) = 1]

\* sort_by_key(|pkg_id| pkg_id.version), a stable sort: the place of one
\* more id in a sorted Vec is after the ids that are not greater.
RECURSIVE InsertByVersion(_, _)
InsertByVersion(sorted, pkg_id) ==
    IF sorted = <<>> THEN <<pkg_id>>
    ELSE IF VersionLess(pkg_id.version, Head(sorted).version)
         THEN <<pkg_id>> \o sorted
         ELSE <<Head(sorted)>> \o InsertByVersion(Tail(sorted), pkg_id)

RECURSIVE SortByVersion(_)
SortByVersion(package_ids) ==
    IF package_ids = <<>> THEN <<>>
    ELSE InsertByVersion(SortByVersion(SubSeq(package_ids, 1, Len(package_ids) - 1)),
                         package_ids[Len(package_ids)])

\* CrateIndex::new, from metadata.packages on.  Every package has a
\* manifest path with a parent, its directory; an insert for a directory
\* that is there already replaces the id.  The index's own manifest_path
\* and the descriptive fields of PackageInfo are left out.
CrateIndex_new(packages) ==
    LET ids == [i \in DOMAIN packages |-> NewPackageId(packages, packages[i])]
        names == {packages[i].name : i \in DOMAIN packages}
        dir(i) == Parent(packages[i].manifest_path).value
        last(d) == CHOOSE i \in DOMAIN packages :
                      /\ dir(i) = d
                      /\ \A j \in DOMAIN packages : dir(j) = d => j <= i
    IN [package_infos |->
            [pkg_id \in Range(ids) |-> [crate_name |-> pkg_id.name]],
        dir_to_pkg_id |->
            [d \in {dir(i) : i \in DOMAIN packages} |-> ids[last(d)]],
        pkg_name_to_ids |->
            [name \in names |->
                SortByVersion(SelectSeq(ids, LAMBDA pkg_id : pkg_id.name = name))]]

\* CrateIndex::package_ids
package_ids(index) == DOMAIN index.package_infos

\* CrateSel
Primary(pkg_id) == [sel |-> "Primary", pkg_id |-> pkg_id]

BuildScript(pkg_id) == [sel |-> "BuildScript", pkg_id |-> pkg_id]

\* Display for CrateSel
DisplayCrateSel(crate_sel) ==
    crate_sel.pkg_id.name
      \o (IF crate_sel.sel = "BuildScript" THEN <<".", "b", "u", "i", "l", "d">> ELSE <<>>)
      \o (IF ~crate_sel.pkg_id.name_is_unique
          THEN <<"[">> \o DisplayVersion(crate_sel.pkg_id.version) \o <<"]">>
          ELSE <<>>)

\* Display for PackageId
DisplayPackageId(pkg_id) == DisplayCrateSel(Primary(pkg_id))

\* Display for BuildScriptId
DisplayBuildScriptId(pkg_id) == DisplayCrateSel(BuildScript(pkg_id))

\* The name of the environment variable that carries the non-unique
\* package names to the subprocesses.
MULTIPLE_VERSION_PKG_NAMES_ENV == "CACKLE_MULTIPLE_VERSION_PKG_NAMES"

\* The orders in which a HashMap can visit the keys S.
RECURSIVE Enumerations(_)
Enumerations(S) ==
    IF S = {} THEN {<<>>}
    ELSE UNION {{<<x>> \o rest : rest \in Enumerations(S \ {x})} : x \in S}

\* [&str]::join(sep)
RECURSIVE JoinWith(_, _)
JoinWith(texts, sep) ==
    IF texts = <<>> THEN <<>>
    ELSE IF Len(texts) = 1 THEN texts[1]
    ELSE texts[1] \o sep \o JoinWith(Tail(texts), sep)

\* str::split(sep) for a separator of one character: the pieces between
\* the separators, one empty piece for the empty string.
RECURSIVE Split(_, _)
Split(text, sep) ==
    IF \A i \in DOMAIN text : text[i] # sep THEN <<text>>
    ELSE LET at == CHOOSE i \in DOMAIN text :
                       text[i] = sep /\ \A j \in 1..(i - 1) : text[j] # sep
         IN <<SubSeq(text, 1, at - 1)>>
              \o Split(SubSeq(text, at + 1, Len(text)), sep)

\* Mutant of add_internal_env: the names are written one after the other
\* with nothing between them.
add_internal_env_NoSeparator(order) ==
    LET non_unique == SelectSeq(order, LAMBDA id : ~id.name_is_unique)
    IN MULTIPLE_VERSION_PKG_NAMES_ENV
         :> JoinWith([i \in DOMAIN non_unique |-> non_unique[i].name], <<>>)

\* CrateIndex::add_internal_env: the variable it adds to the command's
\* environment.  `order` is the order in which package_ids() visits the
\* ids of the index.
add_internal_env(order) ==
    LET non_unique == SelectSeq(order, LAMBDA id : ~id.name_is_unique)
    IN MULTIPLE_VERSION_PKG_NAMES_ENV
         :> JoinWith([i \in DOMAIN non_unique |-> non_unique[i].name], <<",">>)

\* get_env: Nothing stands for the error.
get_env(env, key) ==
    IF key \in DOMAIN env THEN Some(env[key]) ELSE Nothing

Digits == {"0", "1", "2", "3", "4", "5", "6", "7", "8", "9"}

DigitValue(c) == CHOOSE d \in 0..9 : Decimal(d) = <<c>>

\* The number a string of digits denotes.
RECURSIVE DecimalValue(_)
DecimalValue(text) ==
    IF text = <<>> THEN 0
    ELSE DecimalValue(SubSeq(text, 1, Len(text) - 1)) * 10
           + DigitValue(text[Len(text)])

\* One numeric identifier of a version: digits, with no leading zero.
IsNumeric(text) ==
    /\ text # <<>>
    /\ \A i \in DOMAIN text : text[i] \in Digits
    /\ Len(text) > 1 => text[1] # "0"

\* Version::parse for versions without pre-release and build metadata.
ParseVersion(text) ==
    LET parts == Split(text, ".")
    IN IF Len(parts) = 3 /\ \A i \in 1..3 : IsNumeric(parts[i])
       THEN Some(Version(DecimalValue(parts[1]), DecimalValue(parts[2]),
                         DecimalValue(parts[3])))
       ELSE Nothing

\* PackageId::from_env, on the environment of the subprocess.  Nothing
\* stands for the error.
PackageId_from_env(env) ==
    LET name == get_env(env, "CARGO_PKG_NAME")
        version_string == get_env(env, "CARGO_PKG_VERSION")
        non_unique_pkg_names == get_env(env, MULTIPLE_VERSION_PKG_NAMES_ENV)
    IN IF ~name.some \/ ~version_string.some THEN Nothing
       ELSE IF ~ParseVersion(version_string.value).some THEN Nothing
       ELSE IF ~non_unique_pkg_names.some THEN Nothing
       ELSE Some([name |-> name.value,
                  version |-> ParseVersion(version_string.value).value,
                  name_is_unique |->
                      LET pieces == Split(non_unique_pkg_names.value, ",")
                      IN \A i \in DOMAIN pieces : pieces[i] # name.value])

\* Whether text starts with the characters of start.
StartsWith(text, start) ==
    Len(text) >= Len(start) /\ SubSeq(text, 1, Len(start)) = start

\* CrateSel::from_env
CrateSel_from_env(env) ==
    LET pkg_id == PackageId_from_env(env)
        is_build_script ==
            /\ "CARGO_CRATE_NAME" \in DOMAIN env
            /\ StartsWith(env["CARGO_CRATE_NAME"],
                          <<"b", "u", "i", "l", "d", "_", "s", "c", "r", "i", "p", "t", "_">>)
    IN IF ~pkg_id.some THEN Nothing
       ELSE IF is_build_script THEN Some(BuildScript(pkg_id.value))
       ELSE Some(Primary(pkg_id.value))

\* Mutant of package_id_for_path_loop: the walk starts at the parent.
package_id_for_path_loop_SkipsPath(index, path) ==
    IF Parent(path).some /\ Parent(path).value \in DOMAIN index.dir_to_pkg_id
    THEN [returned |-> TRUE, value |-> Some(index.dir_to_pkg_id[Parent(path).value])]
    ELSE IF Parent(path).some
    THEN [returned |-> FALSE, path |-> Parent(path).value]
    ELSE [returned |-> TRUE, value |-> Nothing]

\* One turn of the loop of CrateIndex::package_id_for_path: it returns a
\* value or goes on with the parent.
package_id_for_path_loop(index, path) ==
    IF path \in DOMAIN index.dir_to_pkg_id
    THEN [returned |-> TRUE, value |-> Some(index.dir_to_pkg_id[path])]
    ELSE IF Parent(path).some
    THEN [returned |-> FALSE, path |-> Parent(path).value]
    ELSE [returned |-> TRUE, value |-> Nothing]

----------------------------------------------------------------------------
(* Problems and problem lists (src/src/problem.rs).  A Problem is a record *)
(* of its variant `kind` and of what the variant holds, `v`.  A BTreeMap   *)
(* is a function; its keys are visited in ascending order.                 *)

Problem(kind, v) == [kind |-> kind, v |-> v]

\* The variants of Problem, in the order of the enum.
ProblemKinds ==
    {"Message", "MissingConfiguration", "UsesBuildScript", "DisallowedUnsafe",
     "IsProcMacro", "DisallowedApiUsage", "BuildScriptFailed",
     "DisallowedBuildInstruction", "UnusedPackageConfig", "UnusedAllowApi",
     "SelectSandbox", "ImportStdApi", "AvailableApi", "PossibleExportedApi"}

\* ApiUsages
ApiUsages(crate_sel, usages) == [crate_sel |-> crate_sel, usages |-> usages]

\* Ord for str, on names written in lowercase letters and '-', which comes
\* before the letters.
Lowercase ==
    <<"a", "b", "c", "d", "e", "f", "g", "h", "i", "j", "k", "l", "m",
      "n", "o", "p", "q", "r", "s", "t", "u", "v", "w", "x", "y", "z">>

CharRank(c) == IF c = "-" THEN 0 ELSE CHOOSE i \in DOMAIN Lowercase : Lowercase[i] = c

RECURSIVE StrLess(_, _)
StrLess(a, b) ==
    IF b = <<>> THEN FALSE
    ELSE IF a = <<>> THEN TRUE
    ELSE IF Head(a) = Head(b) THEN StrLess(Tail(a), Tail(b))
    ELSE CharRank(Head(a)) < CharRank(Head(b))

\* The elements of a set of Strings in ascending order: the order in which
\* a BTreeMap visits its keys.
RECURSIVE Ascending(_)
Ascending(S) ==
    IF S = {} THEN <<>>
    ELSE LET least == CHOOSE x \in S : \A y \in S \ {x} : StrLess(x, y)
         IN <<least>> \o Ascending(S \ {least})

\* The flattened concatenation of a sequence of Strings.
RECURSIVE Concat(_)
Concat(texts) ==
    IF texts = <<>> THEN <<>> ELSE Head(texts) \o Concat(Tail(texts))

\* group_fn of grouped_by_type_and_crate and of
\* grouped_by_type_crate_and_api.
GroupKey(by, usage) ==
    IF by = "type_crate_and_api" /\ DOMAIN usage.usages # {}
    THEN DisplayCrateSel(usage.crate_sel) \o <<"-">>
           \o Ascending(DOMAIN usage.usages)[1]
    ELSE DisplayCrateSel(usage.crate_sel)

\* Mutant of AppendUsages: the usages of the later problem come first.
AppendUsages_Prepends(existing, usages) ==
    [k \in DOMAIN existing \cup DOMAIN usages |->
        (IF k \in DOMAIN usages THEN usages[k] ELSE <<>>)
          \o (IF k \in DOMAIN existing THEN existing[k] ELSE <<>>)]

\* for (k, v) in usage.usages { existing.usages.entry(k).or_default().append(v) }
AppendUsages(existing, usages) ==
    [k \in DOMAIN existing \cup DOMAIN usages |->
        (IF k \in DOMAIN existing THEN existing[k] ELSE <<>>)
          \o (IF k \in DOMAIN usages THEN usages[k] ELSE <<>>)]

\* Mutant of GroupStep: a problem that finds its key taken is pushed after
\* its usages were merged.
GroupStep_KeepsMerged(by, st, problem) ==
    IF problem.kind = "DisallowedApiUsage"
    THEN LET key == GroupKey(by, problem.v)
         IN IF key \in DOMAIN st.disallowed_by_crate_name
            THEN LET at == st.disallowed_by_crate_name[key] + 1
                 IN [st EXCEPT !.merged =
                        Append([@ EXCEPT ![at].v.usages =
                                   AppendUsages(@, problem.v.usages)], problem)]
            ELSE [merged |-> Append(st.merged, problem),
                  disallowed_by_crate_name |->
                      st.disallowed_by_crate_name @@ (key :> Len(st.merged))]
    ELSE [st EXCEPT !.merged = Append(@, problem)]

\* The body of the loop of grouped_by, on the state of the loop: `merged`
\* and `disallowed_by_crate_name`.
GroupStep(by, st, problem) ==
    IF problem.kind = "DisallowedApiUsage"
    THEN LET key == GroupKey(by, problem.v)
         IN IF key \in DOMAIN st.disallowed_by_crate_name
            THEN LET at == st.disallowed_by_crate_name[key] + 1
                 IN [st EXCEPT !.merged[at].v.usages =
                        AppendUsages(@, problem.v.usages)]
            ELSE [merged |-> Append(st.merged, problem),
                  disallowed_by_crate_name |->
                      st.disallowed_by_crate_name @@ (key :> Len(st.merged))]
    ELSE [st EXCEPT !.merged = Append(@, problem)]

RECURSIVE GroupLoop(_, _, _)
GroupLoop(by, st, list) ==
    IF list = <<>> THEN st
    ELSE GroupLoop(by, GroupStep(by, st, Head(list)), Tail(list))

grouped_by(list, by) ==
    GroupLoop(by, [merged |-> <<>>, disallowed_by_crate_name |-> <<>>], list).merged

grouped_by_type_and_crate(list) == grouped_by(list, "type_and_crate")

grouped_by_type_crate_and_api(list) == grouped_by(list, "type_crate_and_api")

\* Mutant of should_send_retry_to_subprocess: a disallowed API usage is
\* retried through the subprocess as well.
should_send_retry_to_subprocess_AlsoApi(problem) ==
    problem.kind \in {"BuildScriptFailed", "DisallowedUnsafe", "DisallowedApiUsage"}

\* Problem::should_send_retry_to_subprocess
should_send_retry_to_subprocess(problem) ==
    problem.kind \in {"BuildScriptFailed", "DisallowedUnsafe"}

\* ProblemList::should_send_retry_to_subprocess
ProblemList_should_send_retry_to_subprocess(list) ==
    \A i \in DOMAIN list : should_send_retry_to_subprocess(list[i])

\* Severity
Warning == "Warning"

Error == "Error"

\* Problem::severity
severity(problem) ==
    IF problem.kind \in {"UnusedAllowApi", "UnusedPackageConfig",
                         "PossibleExportedApi", "AvailableApi"}
    THEN Warning ELSE Error

----------------------------------------------------------------------------
(* Specification SpecProblems: problems are pushed onto a ProblemList,     *)
(* which is then grouped by type and crate (once or twice in a row) or     *)
(* asked whether a retry goes to the subprocess.                           *)

\* Longest problem list.
MaxProblems == 3

\* The packages of the dependency tree: two versions of foo and one of bar.
TestPackages ==
    <<[name |-> <<"f", "o", "o">>, version |-> Version(0, 1, 0), source |-> "registry",
       manifest_path |-> <<"/", "r", "foo-0.1.0", "Cargo.toml">>],
      [name |-> <<"f", "o", "o">>, version |-> Version(0, 2, 0), source |-> "registry",
       manifest_path |-> <<"/", "r", "foo-0.2.0", "Cargo.toml">>],
      [name |-> <<"b", "a", "r">>, version |-> Version(0, 1, 0), source |-> "registry",
       manifest_path |-> <<"/", "w", "Cargo.toml">>]>>

\* The PackageId of a listed package.
TestPackageId(i) == NewPackageId(TestPackages, TestPackages[i])

\* tests::create_usage, with the debug data as one more argument.
create_usage(from, to, debug_data) ==
    [source_location |-> [filename |-> <<"l", "i", "b", ".", "r", "s">>, line |-> 1, column |-> Nothing],
     from |-> from,
     to |-> to,
     to_name |-> <<<<"f", "o", "o">>, <<"b", "a", "r">>>>,
     to_source |-> to,
     debug_data |-> debug_data]

\* tests::create_problem, for a crate selection.
create_problem(crate_sel, usages) ==
    Problem("DisallowedApiUsage", ApiUsages(crate_sel, usages))

\* UnsafeUsage and BuildScriptFailed, as problem.rs reads them.
UnsafeUsage(crate_sel, locations) ==
    [crate_sel |-> crate_sel, locations |-> locations]

BuildScriptFailed(pkg_id, stderr, stdout, sandbox) ==
    [build_script_id |-> [pkg_id |-> pkg_id],
     output |-> [build_script_id |-> [pkg_id |-> pkg_id],
                 stderr |-> stderr, stdout |-> stdout, sandbox |-> sandbox]]

\* The crates whose usages are grouped: the two versions of foo and the
\* build script of the first.
GroupedCrates ==
    {Primary(TestPackageId(1)), Primary(TestPackageId(2)),
     BuildScript(TestPackageId(1))}

\* The usage maps of tests::test_condense, and a map without usages.
CondenseUsages ==
    {<<"n", "e", "t">> :> <<create_usage(<<"a", "a", "a">>, <<"n", "e", "t", "_", "s", "t", "u", "f", "f">>, None)>>,
     <<"n", "e", "t">> :> <<create_usage(<<"b", "b", "b">>, <<"n", "e", "t", "_", "s", "t", "u", "f", "f">>, None)>>,
     <<"f", "s">> :> <<create_usage(<<"a", "a", "a">>, <<"f", "s", "_", "s", "t", "u", "f", "f">>, None)>>}

\* The problems pushed: disallowed API usages of the three crates, and one
\* problem each of three other kinds.
PushedProblems ==
    {create_problem(crate_sel, usages) :
        crate_sel \in GroupedCrates, usages \in CondenseUsages}
      \cup {create_problem(Primary(TestPackageId(1)), <<>>),
            Problem("Message", <<"m">>),
            Problem("DisallowedUnsafe",
                    UnsafeUsage(Primary(TestPackageId(1)), <<>>)),
            Problem("BuildScriptFailed",
                    BuildScriptFailed(TestPackageId(1), <<"e">>, <<>>, Nothing))}

\* The part of the state that holds the checker, when there is none.
NoChecker ==
    /\ config = [perms |-> <<>>, crates |-> <<>>]
    /\ checker = from_config(config)
    /\ query = NoQuery
    /\ calls = <<>>
    /\ reported = {}
    /\ id_calls = <<>>

InitProblems ==
    /\ NoChecker
    /\ NoProxy
    /\ NoUi
    /\ metadata = TestPackages
    /\ crate_index = CrateIndex_new(metadata)
    /\ problems = <<>>
    /\ observed = NoObservation

\* ProblemList::push
Push ==
    /\ observed = NoObservation
    /\ Len(problems) < MaxProblems
    /\ \E problem \in PushedProblems :
          problems' = Append(problems, problem)
    /\ UNCHANGED <<checkerVars, id_calls, metadata, crate_index, observed, proxyVars, ui>>

\* problems = problems.grouped_by_type_and_crate(), at most twice in a row.
\* `original` is the list before the first of the applications in a row.
GroupedByTypeAndCrate ==
    LET again == observed.op = "grouped_by_type_and_crate"
    IN /\ (observed = NoObservation) \/ (again /\ observed.times < 2)
       /\ problems' = grouped_by_type_and_crate(problems)
       /\ observed' = [op |-> "grouped_by_type_and_crate",
                       original |-> IF again THEN observed.original ELSE problems,
                       input |-> problems,
                       output |-> problems',
                       times |-> IF again THEN observed.times + 1 ELSE 1]
       /\ UNCHANGED <<checkerVars, id_calls, metadata, crate_index, proxyVars, ui>>

\* ProblemList::should_send_retry_to_subprocess
ShouldSendRetryToSubprocess ==
    /\ observed = NoObservation
    /\ observed' = [op |-> "should_send_retry_to_subprocess",
                    input |-> problems,
                    output |-> ProblemList_should_send_retry_to_subprocess(problems)]
    /\ UNCHANGED <<checkerVars, id_calls, metadata, crate_index, problems, proxyVars, ui>>

NextProblems == Push \/ GroupedByTypeAndCrate \/ ShouldSendRetryToSubprocess

SpecProblems == InitProblems /\ [][NextProblems]_vars

----------------------------------------------------------------------------
(* Deduplication keys and rendered messages (src/src/problem.rs,           *)
(* src/src/ui/full_term/problems_ui.rs)                                    *)

\* usage.debug_data = None, for every usage of every permission.
WithoutDebugData(usages) ==
    [k \in DOMAIN usages |->
        [i \in DOMAIN usages[k] |-> [usages[k][i] EXCEPT !.debug_data = None]]]

\* Mutant of deduplication_key: a PossibleExportedApi keeps its symbol.
deduplication_key_KeepsSymbol(problem) ==
    IF /\ problem.kind = "DisallowedApiUsage"
       /\ \E k \in DOMAIN problem.v.usages : \E i \in DOMAIN problem.v.usages[k] :
             problem.v.usages[k][i].debug_data # None
    THEN [problem EXCEPT !.v.usages = WithoutDebugData(@)]
    ELSE problem

\* Problem::deduplication_key
deduplication_key(problem) ==
    IF /\ problem.kind = "DisallowedApiUsage"
       /\ \E k \in DOMAIN problem.v.usages : \E i \in DOMAIN problem.v.usages[k] :
             problem.v.usages[k][i].debug_data # None
    THEN [problem EXCEPT !.v.usages = WithoutDebugData(@)]
    ELSE IF problem.kind = "PossibleExportedApi"
    THEN [problem EXCEPT !.v.symbol = <<>>]
    ELSE problem

\* The text of a source location.
DisplaySourceLocation(location) ==
    location.filename \o <<":">> \o Decimal(location.line)
      \o (IF location.column.some
          THEN <<":">> \o Decimal(location.column.value) ELSE <<>>)

\* One line of display_usages: "        -> {to_source} [{line}:{column}]".
DisplayUsageLine(u) ==
    <<" ", " ", " ", " ", " ", " ", " ", " ", "-", ">", " ">> \o u.to_source \o <<" ", "[">> \o Decimal(u.source_location.line)
      \o (IF u.source_location.column.some
          THEN <<":">> \o Decimal(u.source_location.column.value) ELSE <<>>)
      \o <<"]", "\n">>

\* display_usages: the usages by file name, then by `from`, both ascending,
\* and in the order of the Vec under one `from`.
display_usages(usages) ==
    LET filenames == Ascending({usages[i].source_location.filename :
                                    i \in DOMAIN usages})
        ForFile(filename) ==
            SelectSeq(usages, LAMBDA u : u.source_location.filename = filename)
        ForFrom(local, from) == SelectSeq(local, LAMBDA u : u.from = from)
        Froms(local) == Ascending({local[i].from : i \in DOMAIN local})
        FromText(local, from) ==
            <<" ", " ", " ", " ", " ", " ">> \o from \o <<"\n">>
              \o Concat([i \in DOMAIN ForFrom(local, from) |->
                            DisplayUsageLine(ForFrom(local, from)[i])])
        FileText(filename) ==
            <<" ", " ", " ", " ">> \o filename \o <<"\n">>
              \o Concat([i \in DOMAIN Froms(ForFile(filename)) |->
                            FromText(ForFile(filename),
                                     Froms(ForFile(filename))[i])])
    IN Concat([i \in DOMAIN filenames |-> FileText(filenames[i])])

\* The names of a sequence joined by ", ".
RECURSIVE CommaJoin(_)
CommaJoin(names) ==
    IF names = <<>> THEN <<>>
    ELSE IF Len(names) = 1 THEN names[1]
    ELSE names[1] \o <<",", " ">> \o CommaJoin(Tail(names))

\* Display for ApiUsages
DisplayApiUsages(info, alternate) ==
    LET perms == Ascending(DOMAIN info.usages)
    IN IF alternate
       THEN <<"'">> \o DisplayCrateSel(info.crate_sel) \o <<"'", " ", "u", "s", "e", "s", " ", "d", "i", "s", "a", "l", "l", "o", "w", "e", "d", " ", "A", "P", "I", "s", ":", "\n">>
              \o Concat([i \in DOMAIN perms |->
                            <<" ", " ">> \o perms[i] \o <<":", "\n">>
                              \o display_usages(info.usages[perms[i]])])
       ELSE IF Len(perms) = 1
       THEN <<Grave>> \o DisplayCrateSel(info.crate_sel) \o <<Grave, " ", "u", "s", "e", "s", " ", "A", "P", "I", " ", Grave>>
              \o perms[1] \o <<Grave>>
       ELSE <<"'">> \o DisplayCrateSel(info.crate_sel) \o <<"'", " ", "u", "s", "e", "s", " ", "d", "i", "s", "a", "l", "l", "o", "w", "e", "d", " ", "A", "P", "I", "s", ":", " ">>
              \o CommaJoin(perms)

\* Display for UnusedAllowApi
DisplayUnusedAllowApi(info, alternate) ==
    IF alternate
    THEN <<Grave, "p", "k", "g", ".">> \o info.crate_name \o <<Grave, " ", "a", "l", "l", "o", "w", "s", " ", "A", "P", "I", "s", " ", "t", "h", "a", "t", " ", "a", "r", "e", "n", "'", "t", " ", "u", "s", "e", "d", ":", "\n">>
           \o Concat([i \in DOMAIN info.permissions |->
                         <<" ", " ", " ", " ">> \o info.permissions[i] \o <<"\n">>])
    ELSE <<Grave, "p", "k", "g", ".">> \o info.crate_name \o <<Grave, " ", "a", "l", "l", "o", "w", "s", " ", "A", "P", "I", "s", " ", "t", "h", "a", "t", " ", "a", "r", "e", "n", "'", "t", " ", "u", "s", "e", "d">>

\* Display for BuildScriptFailed.  output.sandbox is the text that the
\* sandbox of output.sandbox_config displays, if there is one.
DisplayBuildScriptFailed(info, alternate) ==
    <<"B", "u", "i", "l", "d", " ", "s", "c", "r", "i", "p", "t", " ", "f", "o", "r", " ", "p", "a", "c", "k", "a", "g", "e", " ", Grave>>
      \o DisplayPackageId(info.output.build_script_id.pkg_id) \o <<Grave, " ", "f", "a", "i", "l", "e", "d">>
      \o (IF alternate
          THEN <<"\n">> \o info.output.stderr \o info.output.stdout
                 \o (IF info.output.sandbox.some
                     THEN <<"S", "a", "n", "d", "b", "o", "x", " ", "c", "o", "n", "f", "i", "g", ":", "\n">> \o info.output.sandbox.value \o <<"\n">>
                     ELSE <<>>)
          ELSE <<>>)

\* Display for Problem; `alternate` is the "#" flag of the format.
Display(problem, alternate) ==
    CASE problem.kind = "Message" -> problem.v
      [] problem.kind = "DisallowedUnsafe" ->
            <<Grave>> \o DisplayCrateSel(problem.v.crate_sel) \o <<Grave, " ", "u", "s", "e", "s", " ", "u", "n", "s", "a", "f", "e">>
              \o (IF alternate
                  THEN <<"\n">> \o Concat([i \in DOMAIN problem.v.locations |->
                           DisplaySourceLocation(problem.v.locations[i]) \o <<"\n">>])
                  ELSE <<>>)
      [] problem.kind = "UsesBuildScript" ->
            <<Grave>> \o DisplayCrateSel(Primary(problem.v.pkg_id))
              \o <<Grave, " ", "h", "a", "s", " ", "a", " ", "b", "u", "i", "l", "d", " ", "s", "c", "r", "i", "p", "t">>
      [] problem.kind = "IsProcMacro" ->
            <<Grave>> \o DisplayCrateSel(Primary(problem.v)) \o <<Grave, " ", "i", "s", " ", "a", " ", "p", "r", "o", "c", " ", "m", "a", "c", "r", "o">>
      [] problem.kind = "DisallowedApiUsage" ->
            DisplayApiUsages(problem.v, alternate)
      [] problem.kind = "BuildScriptFailed" ->
            DisplayBuildScriptFailed(problem.v, alternate)
      [] problem.kind = "DisallowedBuildInstruction" ->
            DisplayCrateSel(Primary(problem.v.build_script_id.pkg_id))
              \o <<"'", "s", " ", "b", "u", "i", "l", "d", " ", "s", "c", "r", "i", "p", "t", " ", "e", "m", "i", "t", "t", "e", "d", " ", "d", "i", "s", "a", "l", "l", "o", "w", "e", "d", " ", "i", "n", "s", "t", "r", "u", "c", "t", "i", "o", "n", " ", Grave>>
              \o problem.v.instruction \o <<Grave>>
      [] problem.kind = "UnusedPackageConfig" ->
            <<"C", "o", "n", "f", "i", "g", " ", "s", "u", "p", "p", "l", "i", "e", "d", " ", "f", "o", "r", " ", "p", "a", "c", "k", "a", "g", "e", " ", Grave>> \o problem.v
              \o <<Grave, " ", "n", "o", "t", " ", "i", "n", " ", "d", "e", "p", "e", "n", "d", "e", "n", "c", "y", " ", "t", "r", "e", "e">>
      [] problem.kind = "UnusedAllowApi" ->
            DisplayUnusedAllowApi(problem.v, alternate)
      [] problem.kind = "MissingConfiguration" ->
            <<"C", "o", "n", "f", "i", "g", " ", "f", "i", "l", "e", " ", Grave>> \o problem.v \o <<Grave, " ", "n", "o", "t", " ", "f", "o", "u", "n", "d">>
      [] problem.kind = "SelectSandbox" -> <<"S", "e", "l", "e", "c", "t", " ", "s", "a", "n", "d", "b", "o", "x", " ", "k", "i", "n", "d">>
      [] problem.kind = "ImportStdApi" ->
            <<"O", "p", "t", "i", "o", "n", "a", "l", "l", "y", " ", "i", "m", "p", "o", "r", "t", " ", "s", "t", "d", " ", "A", "P", "I", " ", Grave>> \o problem.v \o <<Grave>>
      [] problem.kind = "AvailableApi" ->
            <<"P", "a", "c", "k", "a", "g", "e", " ", Grave>> \o DisplayCrateSel(Primary(problem.v.pkg_id))
              \o <<Grave, " ", "e", "x", "p", "o", "r", "t", "s", " ", "A", "P", "I", " ", Grave>> \o problem.v.api \o <<Grave>>
      [] problem.kind = "PossibleExportedApi" ->
            IF alternate
            THEN <<"P", "a", "c", "k", "a", "g", "e", " ", Grave>> \o DisplayPackageId(problem.v.pkg_id)
                   \o <<Grave, " ", "p", "r", "o", "v", "i", "d", "e", "s", " ", "s", "y", "m", "b", "o", "l", " ", Grave>> \o problem.v.symbol
                   \o <<Grave, ".", " ", "A", " ", "t", "o", "p", "-", "l", "e", "v", "e", "l", " ", "m", "o", "d", "u", "l", "e", " ", "h", "a", "s", " ", "t", "h", "e", " ", "s", "a", "m", "e", " ", "n", "a", "m", "e", " ", "a", "s", " ", "t", "h", "e", " ", "A", "P", "I", " ", Grave>>
                   \o problem.v.api
                   \o <<Grave, ".", " ", "I", "f", " ", "t", "h", "i", "s", " ", "m", "o", "d", "u", "l", "e", " ", "i", "s", " ", "p", "u", "b", "l", "i", "c", " ", "(", "w", "e", " ", "c", "a", "n", "'", "t", " ", "t", "e", "l", "l", ")", ",", " ", "t", "h", "e", "n", " ", "c", "o", "n", "s", "i", "d", "e", "r", " ", "a", "d", "j", "u", "s", "t", "i", "n", "g", " ", "t", "h", "e", " ", "A", "P", "I", " ", "i", "n", "c", "l", "u", "d", "e", "s", ".">>
            ELSE <<"P", "a", "c", "k", "a", "g", "e", " ", Grave>> \o DisplayPackageId(problem.v.pkg_id)
                   \o <<Grave, " ", "m", "a", "y", " ", "p", "r", "o", "v", "i", "d", "e", " ", "A", "P", "I", " ", Grave>> \o problem.v.api \o <<Grave>>

\* deduplicated_into_iter: the problems of the store with their indices,
\* without those whose deduplication key an earlier problem has.
deduplicated_into_iter(list) ==
    LET first == {i \in DOMAIN list :
                    \A j \in 1..(i - 1) :
                        deduplication_key(list[j]) # deduplication_key(list[i])}
    IN [k \in 1..Cardinality(first) |->
           LET i == CHOOSE x \in first : Cardinality({y \in first : y <= x}) = k
           IN [index |-> i - 1, problem |-> list[i]]]

\* render_problems outside of the edit mode: the items of the list, one
\* format!("{problem}") per deduplicated problem, or the build progress
\* when the store is empty.
render_problems(list) ==
    IF list = <<>> THEN [progress |-> TRUE, items |-> <<>>]
    ELSE [progress |-> FALSE,
          items |-> [k \in DOMAIN deduplicated_into_iter(list) |->
                        Display(deduplicated_into_iter(list)[k].problem, FALSE)]]

----------------------------------------------------------------------------
(* Specification SpecKeys: the problem store holds two problems, of any    *)
(* kinds; their deduplication keys, their severities or their messages     *)
(* are computed, or the list of problems is rendered.                      *)

\* A usage of an API by the function `from`, as tests::create_usage makes
\* it, with debug data or without.
KeyUsages(to) ==
    {create_usage(from, to, debug_data) :
        from \in {<<"a", "a", "a">>, <<"b", "b", "b">>}, debug_data \in {None, "d1", "d2"}}

\* Disallowed API usages: of two crates and two permissions with one usage
\* each, of another target, with two usages under one permission, and with
\* two permissions.
KeyApiUsages ==
    {ApiUsages(crate_sel, <<"n", "e", "t">> :> <<u>>) :
        crate_sel \in {Primary(TestPackageId(1)), Primary(TestPackageId(3))},
        u \in KeyUsages(<<"n", "e", "t", "_", "s", "t", "u", "f", "f">>)}
      \cup {ApiUsages(crate_sel, <<"f", "s">> :> <<u>>) :
              crate_sel \in {Primary(TestPackageId(1)), Primary(TestPackageId(3))},
              u \in KeyUsages(<<"f", "s", "_", "s", "t", "u", "f", "f">>)}
      \cup {ApiUsages(Primary(TestPackageId(1)),
                      <<"n", "e", "t">> :> <<create_usage(<<"a", "a", "a">>, <<"f", "s", "_", "s", "t", "u", "f", "f">>, d)>>) :
              d \in {None, "d1"}}
      \cup {ApiUsages(Primary(TestPackageId(1)),
                      <<"n", "e", "t">> :> <<create_usage(<<"a", "a", "a">>, <<"n", "e", "t", "_", "s", "t", "u", "f", "f">>, None),
                                   create_usage(<<"b", "b", "b">>, <<"n", "e", "t", "_", "s", "t", "u", "f", "f">>, d)>>) :
              d \in {None, "d1"}}
      \cup {ApiUsages(Primary(TestPackageId(1)),
                      (<<"n", "e", "t">> :> <<create_usage(<<"a", "a", "a">>, <<"n", "e", "t", "_", "s", "t", "u", "f", "f">>, d)>>)
                        @@ (<<"f", "s">> :> <<create_usage(<<"a", "a", "a">>, <<"f", "s", "_", "s", "t", "u", "f", "f">>, None)>>)) :
              d \in {None, "d1"}}

\* Problems of every kind.
KeyProblems ==
    {Problem("Message", text) : text \in {<<"m">>, <<"n">>}}
      \cup {Problem("MissingConfiguration", <<"c", "a", "c", "k", "l", "e", ".", "t", "o", "m", "l">>)}
      \cup {Problem("UsesBuildScript", [pkg_id |-> TestPackageId(i)]) : i \in {1, 3}}
      \cup {Problem("DisallowedUnsafe",
                    UnsafeUsage(Primary(TestPackageId(1)), locations)) :
              locations \in {<<>>, <<[filename |-> <<"l", "i", "b", ".", "r", "s">>, line |-> 1,
                                     column |-> Some(2)]>>}}
      \cup {Problem("IsProcMacro", TestPackageId(i)) : i \in {1, 3}}
      \cup {Problem("DisallowedApiUsage", info) : info \in KeyApiUsages}
      \cup {Problem("BuildScriptFailed",
                    BuildScriptFailed(TestPackageId(1), stderr, <<>>, Nothing)) :
              stderr \in {<<"e">>, <<"f">>}}
      \cup {Problem("DisallowedBuildInstruction",
                    [build_script_id |-> [pkg_id |-> TestPackageId(1)],
                     instruction |-> instruction]) :
              instruction \in {<<"i">>, <<"j">>}}
      \cup {Problem("UnusedPackageConfig", name) : name \in {<<"f", "o", "o">>, <<"b", "a", "r">>}}
      \cup {Problem("UnusedAllowApi",
                    [crate_name |-> <<"f", "o", "o">>, permissions |-> permissions]) :
              permissions \in {<<<<"f", "s">>>>, <<<<"f", "s">>, <<"n", "e", "t">>>>}}
      \cup {Problem("SelectSandbox", <<>>)}
      \cup {Problem("ImportStdApi", api) : api \in {<<"f", "s">>, <<"n", "e", "t">>}}
      \cup {Problem("AvailableApi",
                    [pkg_id |-> TestPackageId(i), api |-> <<"f", "s">>, config |-> "c"]) :
              i \in {1, 3}}
      \cup {Problem("PossibleExportedApi",
                    [pkg_id |-> TestPackageId(i), api |-> api, symbol |-> symbol]) :
              i \in {1, 3}, api \in {<<"f", "s">>, <<"n", "e", "t">>}, symbol \in {<<"s">>, <<"t">>}}

InitKeys ==
    /\ NoChecker
    /\ NoProxy
    /\ NoUi
    /\ metadata = TestPackages
    /\ crate_index = CrateIndex_new(metadata)
    /\ problems \in {<<p, q>> : p, q \in KeyProblems}
    /\ observed = NoObservation

\* Problem::deduplication_key of both problems, and of the keys themselves.
DeduplicationKey ==
    /\ observed = NoObservation
    /\ observed' = [op |-> "deduplication_key",
                    keys |-> [i \in DOMAIN problems |->
                                 deduplication_key(problems[i])],
                    again |-> [i \in DOMAIN problems |->
                                  deduplication_key(deduplication_key(problems[i]))]]
    /\ UNCHANGED <<checkerVars, id_calls, metadata, crate_index, problems, proxyVars, ui>>

\* Problem::severity of both problems.
SeverityOf ==
    /\ observed = NoObservation
    /\ observed' = [op |-> "severity",
                    output |-> [i \in DOMAIN problems |-> severity(problems[i])]]
    /\ UNCHANGED <<checkerVars, id_calls, metadata, crate_index, problems, proxyVars, ui>>

\* format!("{problem}") and format!("{problem:#}") of both problems.
Format ==
    /\ observed = NoObservation
    /\ \E alternate \in BOOLEAN :
          observed' = [op |-> "format",
                       alternate |-> alternate,
                       texts |-> [i \in DOMAIN problems |->
                                     Display(problems[i], alternate)]]
    /\ UNCHANGED <<checkerVars, id_calls, metadata, crate_index, problems, proxyVars, ui>>

\* ProblemsUi::render_problems
RenderProblems ==
    /\ observed = NoObservation
    /\ observed' = [op |-> "render_problems",
                    output |-> render_problems(problems)]
    /\ UNCHANGED <<checkerVars, id_calls, metadata, crate_index, problems, proxyVars, ui>>

NextKeys == DeduplicationKey \/ SeverityOf \/ Format \/ RenderProblems

SpecKeys == InitKeys /\ [][NextKeys]_vars

----------------------------------------------------------------------------
(* Specification SpecIndex: a CrateIndex is built from the packages that   *)
(* cargo metadata lists, and a disallowed API usage of one of its crates   *)
(* is formatted.                                                           *)

\* Largest number of packages in the dependency tree.
MaxPackages == 3

\* The packages there are: foo 0.2.0 from two sources and in an older
\* version, and two versions of bar.
PackageChoices ==
    {[name |-> <<"f", "o", "o">>, version |-> Version(0, 2, 0), source |-> "registry",
      manifest_path |-> <<"/", "r", "foo-0.2.0", "Cargo.toml">>],
     [name |-> <<"f", "o", "o">>, version |-> Version(0, 2, 0), source |-> "git",
      manifest_path |-> <<"/", "w", "m", "x", "Cargo.toml">>],
     [name |-> <<"f", "o", "o">>, version |-> Version(0, 1, 0), source |-> "registry",
      manifest_path |-> <<"/", "r", "foo-0.1.0", "Cargo.toml">>],
     [name |-> <<"b", "a", "r">>, version |-> Version(1, 10, 3), source |-> "registry",
      manifest_path |-> <<"/", "w", "Cargo.toml">>],
     [name |-> <<"b", "a", "r">>, version |-> Version(0, 2, 0), source |-> "registry",
      manifest_path |-> <<"/", "w", "m", "Cargo.toml">>]}

\* The lists of up to n different packages.
RECURSIVE PackageLists(_)
PackageLists(n) ==
    IF n = 0 THEN {<<>>}
    ELSE PackageLists(n - 1)
           \cup {Append(list, package) :
                   list \in {l \in PackageLists(n - 1) : Len(l) = n - 1},
                   package \in PackageChoices}

InitIndex ==
    /\ NoChecker
    /\ NoProxy
    /\ NoUi
    /\ metadata \in {list \in PackageLists(MaxPackages) :
                        \A i, j \in DOMAIN list : i # j => list[i] # list[j]}
    /\ crate_index = CrateIndex_new(metadata)
    /\ problems = <<>>
    /\ observed = NoObservation

\* format!("{problem}") of a disallowed usage of one API by a crate of the
\* index, the package itself or its build script.
FormatUsage ==
    /\ observed = NoObservation
    /\ \E pkg_id \in package_ids(crate_index) :
         \E crate_sel \in {Primary(pkg_id), BuildScript(pkg_id)} :
           \E perm \in {<<"n", "e", "t">>, <<"f", "s">>} :
              LET problem ==
                      create_problem(crate_sel,
                          perm :> <<create_usage(<<"a", "a", "a">>, <<"n", "e", "t", "_", "s", "t", "u", "f", "f">>, None)>>)
              IN observed' = [op |-> "format",
                              problem |-> problem,
                              text |-> Display(problem, FALSE)]
    /\ UNCHANGED <<checkerVars, id_calls, metadata, crate_index, problems, proxyVars, ui>>

\* The driver prepares the command that runs cargo: add_internal_env
\* writes the non-unique names, visiting the package ids in some order.
AddInternalEnv ==
    /\ observed = NoObservation
    /\ \E order \in Enumerations(package_ids(crate_index)) :
          observed' = [op |-> "command", env |-> add_internal_env(order)]
    /\ UNCHANGED <<checkerVars, id_calls, metadata, crate_index, problems, proxyVars, ui>>

\* cargo runs a subprocess for one of the packages, its primary crate or
\* its build script, with the package's name and version in the
\* environment, and the subprocess calls PackageId::from_env.
FromEnv ==
    /\ observed.op = "command"
    /\ \E i \in DOMAIN metadata :
         \E crate_name \in {metadata[i].name,
                            <<"b", "u", "i", "l", "d", "_", "s", "c", "r", "i", "p", "t", "_">>
                               \o <<"b", "u", "i", "l", "d">>} :
            LET env == observed.env
                         @@ ("CARGO_PKG_NAME" :> metadata[i].name)
                         @@ ("CARGO_PKG_VERSION" :> DisplayVersion(metadata[i].version))
                         @@ ("CARGO_CRATE_NAME" :> crate_name)
            IN observed' = [op |-> "from_env",
                            package |-> metadata[i],
                            env |-> env,
                            result |-> PackageId_from_env(env)]
    /\ UNCHANGED <<checkerVars, id_calls, metadata, crate_index, problems, proxyVars, ui>>

\* The paths package_id_for_path is asked about: directories of packages,
\* files below them, paths outside every package, a relative path and the
\* empty path.
AskedPaths ==
    {<<"/">>,
     <<"/", "w">>,
     <<"/", "w", "src", "lib.rs">>,
     <<"/", "w", "m">>,
     <<"/", "w", "m", "src", "c", "a.c">>,
     <<"/", "w", "m", "x", "build.rs">>,
     <<"/", "w", "n", "x">>,
     <<"/", "r">>,
     <<"/", "r", "foo-0.2.0", "src", "lib.rs">>,
     <<"/", "r", "foo-0.1.0">>,
     <<"/", "usr", "include", "a.h">>,
     <<"src", "lib.rs">>,
     <<>>}

\* A call of package_id_for_path: the walk starts at the path asked
\* about.
PackageIdForPath ==
    /\ observed = NoObservation
    /\ \E path \in AskedPaths :
          observed' = [op |-> "package_id_for_path",
                       asked |-> path,
                       path |-> path,
                       turns |-> 0,
                       returned |-> FALSE]
    /\ UNCHANGED <<checkerVars, id_calls, metadata, crate_index, problems, proxyVars, ui>>

\* One turn of the loop of package_id_for_path.
PackageIdForPathLoop ==
    /\ observed.op = "package_id_for_path"
    /\ ~observed.returned
    /\ LET turn == package_id_for_path_loop(crate_index, observed.path)
       IN observed' =
            IF turn.returned
            THEN [op |-> "package_id_for_path",
                  asked |-> observed.asked,
                  path |-> observed.path,
                  turns |-> observed.turns + 1,
                  returned |-> TRUE,
                  value |-> turn.value]
            ELSE [observed EXCEPT !.path = turn.path,
                                  !.turns = observed.turns + 1]
    /\ UNCHANGED <<checkerVars, id_calls, metadata, crate_index, problems, proxyVars, ui>>

NextIndex ==
    \/ FormatUsage
    \/ AddInternalEnv
    \/ FromEnv
    \/ PackageIdForPath
    \/ PackageIdForPathLoop

SpecIndex == InitIndex /\ [][NextIndex]_vars

\* The loop of package_id_for_path is not held up for ever.
SpecIndexFair == SpecIndex /\ WF_vars(PackageIdForPathLoop)

----------------------------------------------------------------------------
(* Linker invocations (src/src/link_info.rs).  An argument of the command  *)
(* line is a String, a sequence of characters.                             *)

\* The index of the last character c of text, 0 if there is none.
LastIndexOf(text, c) ==
    IF \A i \in DOMAIN text : text[i] # c THEN 0
    ELSE CHOOSE i \in DOMAIN text :
            text[i] = c /\ \A j \in (i + 1)..Len(text) : text[j] # c

\* Path::file_name: the last component of the path, if it is a normal one.
\* Separators at the end and components "." at the end do not count.
RECURSIVE file_name(_)
file_name(path) ==
    LET slash == LastIndexOf(path, "/")
        tail == SubSeq(path, slash + 1, Len(path))
    IN IF path = <<>> THEN Nothing
       ELSE IF tail = <<>> \/ (tail = <<".">> /\ slash > 0)
            THEN file_name(SubSeq(path, 1, slash - 1))
       ELSE IF tail = <<".", ".">> \/ tail = <<".">> THEN Nothing
       ELSE Some(tail)

\* Path::extension: what follows the last dot of the file name, if the
\* file name has a dot that is not its first character.
extension(path) ==
    LET name == file_name(path)
        dot == LastIndexOf(name.value, ".")
    IN IF ~name.some THEN Nothing
       ELSE IF dot <= 1 THEN Nothing
       ELSE Some(SubSeq(name.value, dot + 1, Len(name.value)))

EXTENSIONS == {<<"r", "l", "i", "b">>, <<"o">>}

\* Mutant of has_supported_extension: object files only.
has_supported_extension_OnlyObjects(path) ==
    extension(path).some /\ extension(path).value = <<"o">>

has_supported_extension(path) ==
    extension(path).some /\ extension(path).value \in EXTENSIONS

\* Mutant of get_output_file: the argument after the last "-o".
RECURSIVE get_output_file_LastOutput(_)
get_output_file_LastOutput(args) ==
    IF args = <<>> THEN Nothing
    ELSE IF get_output_file_LastOutput(Tail(args)).some
         THEN get_output_file_LastOutput(Tail(args))
    ELSE IF Head(args) = <<"-", "o">> /\ Len(args) >= 2 THEN Some(args[2])
    ELSE Nothing

\* get_output_file, on what is left of std::env::args().  Nothing stands
\* for the error.
RECURSIVE get_output_file(_)
get_output_file(args) ==
    IF args = <<>> THEN Nothing
    ELSE IF Head(args) = <<"-", "o">> /\ Len(args) >= 2 THEN Some(args[2])
    ELSE get_output_file(Tail(args))

\* LinkInfo::from_env, on the environment and the command line of the
\* linker invocation.  Nothing stands for the error.
LinkInfo_from_env(env, argv) ==
    LET crate_sel == CrateSel_from_env(env)
        object_paths == SelectSeq(Tail(argv), has_supported_extension)
        output_file == get_output_file(argv)
    IN IF ~crate_sel.some THEN Nothing
       ELSE IF ~output_file.some THEN Nothing
       ELSE Some([crate_sel |-> crate_sel.value,
                  object_paths |-> object_paths,
                  output_file |-> output_file.value])

----------------------------------------------------------------------------
(* Specification SpecLink: the linker is invoked for a crate of the         *)
(* dependency tree and LinkInfo::from_env reads the invocation.             *)

\* Longest linker command line, argv[0] not counted.
MaxArgs == 3

\* The linker and the arguments it is given: the output flag, object
\* files and rlibs, the output file, a shared library, a library flag.
Linker == <<"c", "c">>

LinkerArgs ==
    {<<"-", "o">>,
     <<"a", ".", "o">>,
     <<"d", ".", "d", "/", "b", ".", "r", "c", "g", "u", ".", "o">>,
     <<"d", "/", "l", "i", "b", "c", ".", "r", "l", "i", "b">>,
     <<"d", "/", "o", "u", "t">>,
     <<"x", ".", "s", "o">>,
     <<"-", "l", "c">>}

\* The command lines of up to n arguments.
RECURSIVE CommandLines(_)
CommandLines(n) ==
    IF n = 0 THEN {<<Linker>>}
    ELSE CommandLines(n - 1)
           \cup {Append(argv, arg) :
                   argv \in {a \in CommandLines(n - 1) : Len(a) = n},
                   arg \in LinkerArgs}

InitLink ==
    /\ NoChecker
    /\ NoProxy
    /\ NoUi
    /\ metadata = TestPackages
    /\ crate_index = CrateIndex_new(metadata)
    /\ problems = <<>>
    /\ observed = NoObservation

\* cargo has rustc link a crate, the primary crate of a package or its
\* build script, and the linker wrapper calls LinkInfo::from_env.
LinkInfoFromEnv ==
    /\ observed = NoObservation
    /\ \E argv \in CommandLines(MaxArgs) :
         \E i \in DOMAIN metadata :
           \E crate_name \in {metadata[i].name,
                              <<"b", "u", "i", "l", "d", "_", "s", "c", "r", "i", "p", "t", "_">>
                                 \o <<"b", "u", "i", "l", "d">>} :
              LET env == add_internal_env(SetToSeq(package_ids(crate_index)))
                           @@ ("CARGO_PKG_NAME" :> metadata[i].name)
                           @@ ("CARGO_PKG_VERSION" :> DisplayVersion(metadata[i].version))
                           @@ ("CARGO_CRATE_NAME" :> crate_name)
              IN observed' = [op |-> "link_info",
                              env |-> env,
                              argv |-> argv,
                              result |-> LinkInfo_from_env(env, argv)]
    /\ UNCHANGED <<checkerVars, id_calls, metadata, crate_index, problems, proxyVars, ui>>

NextLink == LinkInfoFromEnv

SpecLink == InitLink /\ [][NextLink]_vars

----------------------------------------------------------------------------
(* The proxy driver (src/src/proxy.rs).  invoke_cargo_build runs in the    *)
(* main thread, from the point where cargo and the output collecting       *)
(* threads have been started; cargo, its subprocesses, the output          *)
(* collecting threads, the request handler threads and the user interface  *)
(* run beside it.  A step of the main thread is one statement of its loop. *)

GiveUp == "GiveUp"

\* What a request handler answers.
Outcomes == {Proceed, Deny, GiveUp}

\* Result<T>
Ok(x) == [ok |-> TRUE, value |-> x]

Err(error) == [ok |-> FALSE, error |-> error]

\* The errors invoke_cargo_build returns.
CargoBuildFailure(stdout, stderr) ==
    [kind |-> "CargoBuildFailure", stdout |-> stdout, stderr |-> stderr]

HandlerError(c) == [kind |-> "handle_request", connection |-> c]

WriteError(c) == [kind |-> "write_to_stream", connection |-> c]

MalformedRequest == [kind |-> "Malformed request from subprocess"]

SpawnFailed == [kind |-> "thread spawn"]

\* The subprocesses cargo may start in one build, each with its
\* connection to the driver, named in the order in which they connect.
Connections == {"c1", "c2"}

ConnectionOrder == <<"c1", "c2">>

\* The most bytes cargo writes to its stdout and to its stderr.
MaxOutput == 1

Streams == {"stdout", "stderr"}

\* A connection of a subprocess that has not been started.
NotStarted ==
    [stage |-> "not started", request |-> "none", response |-> Nothing,
     writes |-> <<>>, forwarded |-> FALSE, peer |-> "none"]

\* The state of the build when the loop of invoke_cargo_build is entered.
ProxyStarted(capture_output) ==
    /\ driver = [pc |-> "try_wait",
                 capture_output |-> capture_output,
                 status |-> Nothing,
                 kill_called |-> FALSE,
                 result |-> Nothing]
    /\ cargo_process = [state |-> "running", code |-> Nothing,
                        stdout |-> <<>>, stderr |-> <<>>, killed |-> FALSE]
    /\ output_threads = [stream \in Streams |->
                            [started |-> capture_output,
                             output |-> <<>>,
                             finished |-> FALSE]]
    /\ connections = [c \in Connections |-> NotStarted]
    /\ channels = [listener |-> <<>>, listening |-> TRUE,
                   errors |-> <<>>, abort |-> FALSE]

\* Dropping the listener: the connections that wait to be accepted are
\* closed, and their subprocesses fail.
DropListener(conns, backlog) ==
    [c \in Connections |->
        IF \E i \in DOMAIN backlog : backlog[i] = c
        THEN [conns[c] EXCEPT !.stage = "refused", !.peer = "failed"]
        ELSE conns[c]]

\* A return from invoke_cargo_build: the result is handed to the caller
\* and the locals are dropped, the listener among them; the cargo process
\* is dropped as it is, running or not.
Return(result, conns) ==
    /\ driver' = [driver EXCEPT !.pc = "returned", !.result = Some(result)]
    /\ connections' = DropListener(conns, channels.listener)
    /\ channels' = [channels EXCEPT !.listener = <<>>, !.listening = FALSE]

\* cargo_process.try_wait()
TryWait ==
    /\ driver.pc = "try_wait"
    /\ IF cargo_process.state = "exited"
       THEN driver' = [driver EXCEPT !.status = Some(cargo_process.code),
                                     !.pc = "join"]
       ELSE driver' = [driver EXCEPT !.pc = "error_recv"]
    /\ UNCHANGED <<cargo_process, output_threads, connections, channels>>

\* Mutant of JoinOutput: the output is taken without joining the threads.
JoinOutput_NoJoin ==
    /\ driver.pc = "join"
    /\ LET stdout == IF driver.capture_output
                     THEN output_threads["stdout"].output ELSE <<>>
           stderr == IF driver.capture_output
                     THEN output_threads["stderr"].output ELSE <<>>
       IN IF driver.status.value # Some(0)
          THEN Return(Err(CargoBuildFailure(stdout, stderr)), connections)
          ELSE Return(Ok("unit"), connections)
    /\ UNCHANGED <<cargo_process, output_threads>>

\* After try_wait has reported cargo's exit: both output collecting
\* threads, if there are any, are joined, the listener is dropped, and the
\* status decides between the failure and leaving the loop.
JoinOutput ==
    /\ driver.pc = "join"
    /\ driver.capture_output =>
          \A stream \in Streams : output_threads[stream].finished
    /\ LET stdout == IF driver.capture_output
                     THEN output_threads["stdout"].output ELSE <<>>
           stderr == IF driver.capture_output
                     THEN output_threads["stderr"].output ELSE <<>>
       IN IF driver.status.value # Some(0)
          THEN Return(Err(CargoBuildFailure(stdout, stderr)), connections)
          ELSE Return(Ok("unit"), connections)
    /\ UNCHANGED <<cargo_process, output_threads>>

\* error_recv.try_recv()
ErrorRecv ==
    /\ driver.pc = "error_recv"
    /\ IF channels.errors # <<>>
       THEN /\ driver' = [driver EXCEPT !.pc = "returned",
                             !.result = Some(Err(Head(channels.errors)))]
            /\ connections' = DropListener(connections, channels.listener)
            /\ channels' = [channels EXCEPT !.errors = Tail(channels.errors),
                                            !.listener = <<>>,
                                            !.listening = FALSE]
       ELSE /\ driver' = [driver EXCEPT !.pc = "abort_recv"]
            /\ UNCHANGED <<connections, channels>>
    /\ UNCHANGED <<cargo_process, output_threads>>

\* Child::kill: a running process is killed, and its exit is there for
\* try_wait to report; on a process that has exited it changes nothing.
kill(process) ==
    IF process.state = "running"
    THEN [process EXCEPT !.state = "exited", !.code = Nothing,
                         !.killed = TRUE]
    ELSE process

\* Mutant of AbortRecv: the signal is taken and cargo is left alone.
AbortRecv_NoKill ==
    /\ driver.pc = "abort_recv"
    /\ driver' = [driver EXCEPT !.pc = "accept"]
    /\ IF channels.abort
       THEN channels' = [channels EXCEPT !.abort = FALSE]
       ELSE UNCHANGED channels
    /\ UNCHANGED <<cargo_process, output_threads, connections>>

\* abort_recv.try_recv(), and the kill of cargo when a signal was there.
AbortRecv ==
    /\ driver.pc = "abort_recv"
    /\ IF channels.abort
       THEN /\ channels' = [channels EXCEPT !.abort = FALSE]
            /\ cargo_process' = kill(cargo_process)
            /\ driver' = [driver EXCEPT !.pc = "accept", !.kill_called = TRUE]
       ELSE /\ driver' = [driver EXCEPT !.pc = "accept"]
            /\ UNCHANGED <<channels, cargo_process>>
    /\ UNCHANGED <<output_threads, connections>>

\* listener.accept(): with a connection waiting, its request is read and a
\* handler thread is spawned for it, and either may fail; with none, the
\* thread sleeps.  Then the loop starts over.
Accept ==
    /\ driver.pc = "accept"
    /\ IF channels.listener = <<>>
       THEN /\ driver' = [driver EXCEPT !.pc = "try_wait"]
            /\ UNCHANGED <<connections, channels>>
       ELSE LET c == Head(channels.listener)
                dropped == [connections EXCEPT ![c].stage = "dropped",
                                               ![c].peer = "failed"]
            IN IF connections[c].request = "malformed"
               THEN /\ driver' = [driver EXCEPT !.pc = "returned",
                                     !.result = Some(Err(MalformedRequest))]
                    /\ connections' = DropListener(dropped, Tail(channels.listener))
                    /\ channels' = [channels EXCEPT !.listener = <<>>,
                                                    !.listening = FALSE]
               ELSE \/ /\ driver' = [driver EXCEPT !.pc = "try_wait"]
                       /\ connections' =
                            [connections EXCEPT ![c].stage = "handle_request"]
                       /\ channels' = [channels EXCEPT
                                          !.listener = Tail(channels.listener)]
                    \/ /\ driver' = [driver EXCEPT !.pc = "returned",
                                        !.result = Some(Err(SpawnFailed))]
                       /\ connections' =
                            DropListener(dropped, Tail(channels.listener))
                       /\ channels' = [channels EXCEPT !.listener = <<>>,
                                                       !.listening = FALSE]
    /\ UNCHANGED <<cargo_process, output_threads>>

\* process_request, first statement: request_handler.handle_request()
\* returns an outcome or an error.
HandleRequest(c) ==
    /\ connections[c].stage = "handle_request"
    /\ \E response \in {Ok(outcome) : outcome \in Outcomes} \cup {Err(HandlerError(c))} :
          connections' = [connections EXCEPT ![c].response = Some(response),
                                             ![c].stage = "write"]
    /\ UNCHANGED <<driver, cargo_process, output_threads, channels>>

\* response.as_ref().unwrap_or(&Outcome::GiveUp)
can_continue(response) ==
    IF response.ok THEN response.value ELSE GiveUp

\* What the subprocess does with the response it was waiting for: it goes
\* on when it may proceed and exits with a failure otherwise.
Answered(outcome) ==
    IF outcome = Proceed THEN "proceeded" ELSE "failed"

\* Mutant of WriteResponse: a handler that failed lets the subprocess
\* proceed.
WriteResponse_ProceedOnError(c) ==
    /\ connections[c].stage = "write"
    /\ LET response == connections[c].response.value
           outcome == IF response.ok THEN response.value ELSE Proceed
       IN connections' =
            [connections EXCEPT
                ![c].writes = Append(@, [response |-> outcome, delivered |-> TRUE]),
                ![c].peer = Answered(outcome),
                ![c].stage = IF response.ok THEN "done" ELSE "forward"]
    /\ UNCHANGED <<driver, cargo_process, output_threads, channels>>

\* Mutant of WriteResponse: a handler that failed leaves the subprocess
\* without a response.
WriteResponse_SilentOnError(c) ==
    /\ connections[c].stage = "write"
    /\ LET response == connections[c].response.value
       IN IF response.ok
          THEN connections' =
                 [connections EXCEPT
                     ![c].writes = Append(@, [response |-> response.value,
                                              delivered |-> TRUE]),
                     ![c].peer = Answered(response.value),
                     ![c].stage = "done"]
          ELSE connections' = [connections EXCEPT ![c].stage = "forward"]
    /\ UNCHANGED <<driver, cargo_process, output_threads, channels>>

\* process_request, rpc::write_to_stream(&can_continue, &mut connection)?
\* and response?: the response is written, the handler's outcome or
\* GiveUp in its place; a write to a subprocess that is gone fails.  The
\* function returns the error of the write, or else the handler's error,
\* or else Ok.
WriteResponse(c) ==
    /\ connections[c].stage = "write"
    /\ LET response == connections[c].response.value
       IN IF connections[c].peer = "gone"
          THEN connections' =
                 [connections EXCEPT
                     ![c].writes = Append(@, [response |-> can_continue(response),
                                              delivered |-> FALSE]),
                     ![c].stage = "forward"]
          ELSE connections' =
                 [connections EXCEPT
                     ![c].writes = Append(@, [response |-> can_continue(response),
                                              delivered |-> TRUE]),
                     ![c].peer = Answered(can_continue(response)),
                     ![c].stage = IF response.ok THEN "done" ELSE "forward"]
    /\ UNCHANGED <<driver, cargo_process, output_threads, channels>>

\* The closure of the handler thread: let _ = error_send.send(error).  The
\* error is that of the write if the write failed, the handler's
\* otherwise; with the receiver dropped the send fails and the error is
\* lost.
ForwardError(c) ==
    /\ connections[c].stage = "forward"
    /\ LET write_failed == \E i \in DOMAIN connections[c].writes :
                               ~connections[c].writes[i].delivered
           error == IF write_failed THEN WriteError(c)
                    ELSE connections[c].response.value.error
       IN channels' = IF driver.pc # "returned"
                      THEN [channels EXCEPT !.errors = Append(@, error)]
                      ELSE channels
    /\ connections' = [connections EXCEPT ![c].forwarded = TRUE,
                                          ![c].stage = "done"]
    /\ UNCHANGED <<driver, cargo_process, output_threads>>

\* An output collecting thread, reader.read_to_end(&mut output): the call
\* returns at the end of the stream, once cargo has exited, with all that
\* cargo wrote, and the thread returns its output.  (What the thread has
\* read before that is in a local of the thread, which nothing else
\* sees.)
CollectOutput(stream) ==
    /\ output_threads[stream].started
    /\ ~output_threads[stream].finished
    /\ cargo_process.state = "exited"
    /\ output_threads' = [output_threads EXCEPT
                             ![stream].output = cargo_process[stream],
                             ![stream].finished = TRUE]
    /\ UNCHANGED <<driver, cargo_process, connections, channels>>

\* cargo writes a byte to its stdout or its stderr.  (Without capturing
\* the output goes to the terminal and is no part of the state.)
CargoWrites(stream) ==
    /\ cargo_process.state = "running"
    /\ driver.capture_output
    /\ Len(cargo_process[stream]) < MaxOutput
    /\ cargo_process' =
          [cargo_process EXCEPT ![stream] = Append(@, <<stream, Len(@) + 1>>)]
    /\ UNCHANGED <<driver, output_threads, connections, channels>>

\* cargo starts a subprocess (the rustc wrapper, the linker wrapper, a
\* build script wrapper), which connects to the socket, sends its request
\* and blocks on the response.  Without a listener it cannot connect and
\* fails.
SubprocessConnects(c) ==
    /\ cargo_process.state = "running"
    /\ connections[c].stage = "not started"
    /\ \A i, j \in DOMAIN ConnectionOrder :
          i < j /\ ConnectionOrder[j] = c
             => connections[ConnectionOrder[i]].stage # "not started"
    /\ IF channels.listening
       THEN /\ \E request \in {"request", "malformed"} :
                 connections' = [connections EXCEPT ![c].stage = "pending",
                                                    ![c].request = request,
                                                    ![c].peer = "blocked"]
            /\ channels' = [channels EXCEPT !.listener = Append(@, c)]
       ELSE /\ connections' = [connections EXCEPT ![c].stage = "refused",
                                                  ![c].peer = "failed"]
            /\ UNCHANGED channels
    /\ UNCHANGED <<driver, cargo_process, output_threads>>

\* cargo exits by itself, which it does not do while a subprocess of its
\* own is running: with code 0 if no subprocess failed, with a failure at
\* any time.
CargoExits ==
    /\ cargo_process.state = "running"
    /\ \A c \in Connections : connections[c].peer # "blocked"
    /\ \E code \in {0, 1} :
         /\ code = 0 => \A c \in Connections : connections[c].peer # "failed"
         /\ cargo_process' = [cargo_process EXCEPT !.state = "exited",
                                                   !.code = Some(code)]
    /\ UNCHANGED <<driver, output_threads, connections, channels>>

\* A subprocess of a cargo that was killed goes away while its handler
\* thread is still at work.
SubprocessGone(c) ==
    /\ cargo_process.killed
    /\ connections[c].stage \in {"handle_request", "write"}
    /\ connections[c].peer = "blocked"
    /\ connections' = [connections EXCEPT ![c].peer = "gone"]
    /\ UNCHANGED <<driver, cargo_process, output_threads, channels>>

\* FullTermUi::run, once quit was requested: self.abort_sender.send(()),
\* which the user interface does again and again.  The channel is kept as
\* the fact that it holds a signal: one more signal in a channel that
\* holds one is the same as a signal sent after the one was taken.  With
\* the receiver dropped the send fails.
AbortSend ==
    /\ ~channels.abort
    /\ driver.pc # "returned"
    /\ channels' = [channels EXCEPT !.abort = TRUE]
    /\ UNCHANGED <<driver, cargo_process, output_threads, connections>>

----------------------------------------------------------------------------
(* Specification SpecProxy: one build, from the start of the loop of       *)
(* invoke_cargo_build on.                                                   *)

InitProxy ==
    /\ NoChecker
    /\ NoProblems
    /\ NoUi
    /\ \E capture_output \in BOOLEAN : ProxyStarted(capture_output)

otherVars == <<checkerVars, id_calls, problemVars, ui>>

MainThread ==
    \/ TryWait
    \/ JoinOutput
    \/ ErrorRecv
    \/ AbortRecv
    \/ Accept

HandlerThread(c) ==
    \/ HandleRequest(c)
    \/ WriteResponse(c)
    \/ ForwardError(c)

NextProxy ==
    \/ TryWait /\ UNCHANGED otherVars
    \/ JoinOutput /\ UNCHANGED otherVars
    \/ ErrorRecv /\ UNCHANGED otherVars
    \/ AbortRecv /\ UNCHANGED otherVars
    \/ Accept /\ UNCHANGED otherVars
    \/ \E c \in Connections : HandleRequest(c) /\ UNCHANGED otherVars
    \/ \E c \in Connections : WriteResponse(c) /\ UNCHANGED otherVars
    \/ \E c \in Connections : ForwardError(c) /\ UNCHANGED otherVars
    \/ \E stream \in Streams : CollectOutput(stream) /\ UNCHANGED otherVars
    \/ \E stream \in Streams : CargoWrites(stream) /\ UNCHANGED otherVars
    \/ \E c \in Connections : SubprocessConnects(c) /\ UNCHANGED otherVars
    \/ CargoExits /\ UNCHANGED otherVars
    \/ \E c \in Connections : SubprocessGone(c) /\ UNCHANGED otherVars
    \/ AbortSend /\ UNCHANGED otherVars

SpecProxy == InitProxy /\ [][NextProxy]_vars

\* The threads of the driver are not held up for ever: the main thread,
\* the handler threads and the output collecting threads.
SpecProxyFair ==
    /\ SpecProxy
    /\ WF_vars(MainThread /\ UNCHANGED otherVars)
    /\ \A c \in Connections : WF_vars(HandlerThread(c) /\ UNCHANGED otherVars)
    /\ \A stream \in Streams : WF_vars(CollectOutput(stream) /\ UNCHANGED otherVars)

----------------------------------------------------------------------------
(* The problems screen of the terminal user interface                      *)
(* (src/src/ui/full_term/problems_ui.rs, src/src/ui/full_term.rs).  `ui`   *)
(* holds the fields of ProblemsUi, the contents of the configuration file  *)
(* as the set of the edits applied to it and whether a ProblemsAdded event *)
(* is in the channel; `problems` is the problem store.                     *)

\* enum Mode
Modes == {"SelectProblem", "SelectEdit", "PromptAutoAccept", "Help"}

\* KeyCode: the keys that handle_key matches.
KeyCodes == {"q", "Up", "Down", " ", "Enter", "a", "h", "?", "Esc"}

\* bail!("Sorry. No automatic edits exist for this problem")
NoEditsError == [kind |-> "Sorry. No automatic edits exist for this problem"]

\* The errors of ConfigEditor::from_file, Edit::apply and fs::write_atomic.
EditError(failure) == [kind |-> failure]

\* What can fail while an edit is applied; None: nothing fails.
Failures == {None, "from_file", "apply", "write_atomic"}

\* An Edit: its title, whether its apply can fail, and the problems that
\* replace the problem it resolves.
Edit(title, fallible, replacement_problems) ==
    [title |-> title, fallible |-> fallible,
     replacement_problems |-> replacement_problems]

\* The problem that follows from allowing unsafe code: an API that the
\* package could now be allowed.
FollowUpProblem ==
    Problem("AvailableApi",
            [pkg_id |-> TestPackageId(1), api |-> <<"f", "s">>, config |-> "c"])

\* config_editor::fixes_for_problem: the edits that a problem proposes.  A
\* disallowed use of an API has one, disallowed unsafe code has one that
\* introduces a follow-up problem, the choice of a sandbox has two, of
\* which the first can fail, and a message or an available API has none.
fixes_for_problem(problem) ==
    CASE problem.kind = "DisallowedApiUsage" ->
            <<Edit("AllowApiUsage", FALSE, <<>>)>>
      [] problem.kind = "DisallowedUnsafe" ->
            <<Edit("AllowUnsafe", FALSE, <<FollowUpProblem>>)>>
      [] problem.kind = "SelectSandbox" ->
            <<Edit("Bubblewrap", TRUE, <<>>), Edit("Disabled", FALSE, <<>>)>>
      [] OTHER -> <<>>

\* Edit::apply on the editor, and what the editor then writes.
apply(editor, edit) == editor \cup {edit.title}

\* ProblemStore::len
len(store) == Len(store)

\* ProblemStore::replace: the problems given take the place of the problem
\* at the index.
replace(store, index, replacements) ==
    SubSeq(store, 1, index) \o replacements \o SubSeq(store, index + 2, Len(store))

\* ProblemStore::resolve
resolve(store, index) == replace(store, index, <<>>)

\* ProblemStore::resolve_problems_with_empty_diff: the problems whose only
\* edit leaves the configuration as it is are resolved.
resolve_problems_with_empty_diff(store, editor) ==
    SelectSeq(store, LAMBDA problem :
        ~(/\ Len(fixes_for_problem(problem)) = 1
          /\ apply(editor, fixes_for_problem(problem)[1]) = editor))

\* Mutant of edits_for_problem: the index counts the duplicates too.
edits_for_problem_WithDuplicates(store, problem_index) ==
    IF problem_index >= Len(store) THEN <<>>
    ELSE fixes_for_problem(store[problem_index + 1])

\* edits_for_problem
edits_for_problem(store, problem_index) ==
    LET deduplicated == deduplicated_into_iter(store)
    IN IF problem_index >= Len(deduplicated) THEN <<>>
       ELSE fixes_for_problem(deduplicated[problem_index + 1].problem)

\* ProblemsUi::edits
edits(u, store) == edits_for_problem(store, u.problem_index)

\* A panic of the thread that runs the user interface.
Panic == [ok |-> FALSE, panic |-> TRUE]

\* update_counter: Some(counter), or Nothing where the remainder by zero
\* panics.
update_counter(counter, key_code, length) ==
    IF length = 0 THEN Nothing
    ELSE IF key_code = "Up" THEN Some((counter + length - 1) % length)
    ELSE Some((counter + length + 1) % length)

\* What an operation of the screen leaves: the screen, the store and
\* Ok(()) or the error.
Outcome(u, store, result) == [ui |-> u, problems |-> store, result |-> result]

\* ProblemsUi::apply_selected_edit
apply_selected_edit(u, store, failure) ==
    LET selected_edits == edits_for_problem(store, u.problem_index)
    IN IF u.edit_index >= Len(selected_edits) THEN Outcome(u, store, Ok(<<>>))
       ELSE IF failure = "from_file" THEN Outcome(u, store, Err(EditError(failure)))
       ELSE IF failure = "apply" /\ selected_edits[u.edit_index + 1].fallible
       THEN Outcome(u, store, Err(EditError(failure)))
       ELSE IF failure = "write_atomic" THEN Outcome(u, store, Err(EditError(failure)))
       ELSE LET edit == selected_edits[u.edit_index + 1]
                editor == apply(u.toml, edit)
                deduplicated == deduplicated_into_iter(store)
                replaced ==
                    IF u.problem_index < Len(deduplicated)
                    THEN replace(store, deduplicated[u.problem_index + 1].index,
                                 edit.replacement_problems)
                    ELSE store
            IN Outcome([u EXCEPT !.toml = editor],
                       resolve_problems_with_empty_diff(replaced, editor),
                       Ok(<<>>))

\* Mutant of first_single_edit: the last problem that has one edit.
first_single_edit_Last(store) ==
    LET single == {i \in DOMAIN store : Len(fixes_for_problem(store[i])) = 1}
    IN IF single = {} THEN Nothing
       ELSE Some((CHOOSE i \in single : \A j \in single : i >= j) - 1)

\* first_single_edit: the index of the first problem that has one edit.
first_single_edit(store) ==
    LET single == {i \in DOMAIN store : Len(fixes_for_problem(store[i])) = 1}
    IN IF single = {} THEN Nothing
       ELSE Some((CHOOSE i \in single : \A j \in single : i <= j) - 1)

\* The loop of accept_all_single_edits; `applied` lists the problems whose
\* edit the loop has applied, in the order in which it applied them.
RECURSIVE AcceptLoopFrom(_, _, _, _)
AcceptLoopFrom(store, editor, failure, applied) ==
    LET first == first_single_edit(store)
    IN IF ~first.some
       THEN [problems |-> store, editor |-> editor, failed |-> FALSE,
             applied |-> applied]
       ELSE LET edit == fixes_for_problem(store[first.value + 1])[1]
            IN IF failure = "apply" /\ edit.fallible
               THEN [problems |-> store, editor |-> editor, failed |-> TRUE,
                     applied |-> applied]
               ELSE AcceptLoopFrom(resolve(store, first.value), apply(editor, edit),
                                   failure, Append(applied, store[first.value + 1]))

AcceptLoop(store, editor, failure) == AcceptLoopFrom(store, editor, failure, <<>>)

\* ProblemsUi::accept_all_single_edits
accept_all_single_edits(u, store, failure) ==
    IF failure = "from_file" THEN Outcome(u, store, Err(EditError(failure)))
    ELSE LET after == AcceptLoop(store, u.toml, failure)
         IN IF after.failed THEN Outcome(u, after.problems, Err(EditError(failure)))
            ELSE IF failure = "write_atomic"
            THEN Outcome(u, after.problems, Err(EditError(failure)))
            ELSE Outcome([u EXCEPT !.toml = after.editor], after.problems, Ok(<<>>))

\* ProblemsUi::problems_added
problems_added(u, store, failure) ==
    IF u.accept_single_enabled THEN accept_all_single_edits(u, store, failure)
    ELSE Outcome(u, store, Ok(<<>>))

\* self.modes.pop()
Pop(modes) == SubSeq(modes, 1, Len(modes) - 1)

\* handle_key, (Mode::SelectProblem | Mode::SelectEdit, Up | Down)
MoveSelection(u, store, mode, key) ==
    LET moved == IF mode = "SelectProblem"
                 THEN update_counter(u.problem_index, key, len(store))
                 ELSE update_counter(u.edit_index, key, Len(edits(u, store)))
    IN IF ~moved.some THEN Outcome(u, store, Panic)
       ELSE IF mode = "SelectProblem"
       THEN Outcome([u EXCEPT !.problem_index = moved.value], store, Ok(<<>>))
       ELSE Outcome([u EXCEPT !.edit_index = moved.value], store, Ok(<<>>))

\* handle_key, (Mode::SelectProblem, Char(' ') | Enter)
SelectProblemEnter(u, store) ==
    IF edits(u, store) = <<>> THEN Outcome(u, store, Err(NoEditsError))
    ELSE Outcome([u EXCEPT !.modes = Append(@, "SelectEdit"), !.edit_index = 0],
                 store, Ok(<<>>))

\* Mutant of SelectEditEnter: the problem index stays where it is.
SelectEditEnter_NoReset(u, store, failure) ==
    LET applied == apply_selected_edit(u, store, failure)
    IN IF ~applied.result.ok THEN applied
       ELSE Outcome([applied.ui EXCEPT !.modes = Pop(@)], applied.problems, Ok(<<>>))

\* handle_key, (Mode::SelectEdit, Char(' ') | Enter)
SelectEditEnter(u, store, failure) ==
    LET applied == apply_selected_edit(u, store, failure)
    IN IF ~applied.result.ok THEN applied
       ELSE Outcome([applied.ui EXCEPT
                        !.problem_index =
                            IF @ >= len(applied.problems) THEN 0 ELSE @,
                        !.modes = Pop(@)],
                    applied.problems, Ok(<<>>))

\* handle_key, (Mode::PromptAutoAccept, Enter)
PromptAutoAcceptEnter(u, store, failure) ==
    LET enabled == [u EXCEPT !.accept_single_enabled = TRUE]
        accepted == accept_all_single_edits(enabled, store, failure)
    IN IF ~accepted.result.ok THEN accepted
       ELSE Outcome([accepted.ui EXCEPT !.modes = Pop(@)], accepted.problems, Ok(<<>>))

\* Mutant of Quit: the key takes one mode off the stack.
Quit_PopsOne(u, store) == Outcome([u EXCEPT !.modes = Pop(@)], store, Ok(<<>>))

\* handle_key, (_, Char('q')): self.modes.clear()
Quit(u, store) == Outcome([u EXCEPT !.modes = <<>>], store, Ok(<<>>))

\* Mutant of Escape: the key takes the last mode off the stack too.
Escape_PopsLast(u, store) == Outcome([u EXCEPT !.modes = Pop(@)], store, Ok(<<>>))

\* Mutant of Escape: leaving a mode puts the edit selection back to 0.
Escape_ResetsEditIndex(u, store) ==
    IF Len(u.modes) >= 2
    THEN Outcome([u EXCEPT !.modes = Pop(@), !.edit_index = 0], store, Ok(<<>>))
    ELSE Outcome(u, store, Ok(<<>>))

\* handle_key, (_, Esc)
Escape(u, store) ==
    IF Len(u.modes) >= 2
    THEN Outcome([u EXCEPT !.modes = Pop(@)], store, Ok(<<>>))
    ELSE Outcome(u, store, Ok(<<>>))

\* ProblemsUi::handle_key: the arms of the match, the first that matches.
handle_key(u, store, key, failure) ==
    IF u.modes = <<>> THEN Outcome(u, store, Ok(<<>>))
    ELSE LET mode == u.modes[Len(u.modes)]
         IN IF key = "q" THEN Quit(u, store)
            ELSE IF mode \in {"SelectProblem", "SelectEdit"} /\ key \in {"Up", "Down"}
            THEN MoveSelection(u, store, mode, key)
            ELSE IF mode = "SelectProblem" /\ key \in {" ", "Enter"}
            THEN SelectProblemEnter(u, store)
            ELSE IF mode = "SelectEdit" /\ key \in {" ", "Enter"}
            THEN SelectEditEnter(u, store, failure)
            ELSE IF mode = "SelectProblem" /\ key = "a"
            THEN IF u.accept_single_enabled THEN Outcome(u, store, Ok(<<>>))
                 ELSE Outcome([u EXCEPT !.modes = Append(@, "PromptAutoAccept")],
                              store, Ok(<<>>))
            ELSE IF mode = "PromptAutoAccept" /\ key = "Enter"
            THEN PromptAutoAcceptEnter(u, store, failure)
            ELSE IF key \in {"h", "?"}
            THEN Outcome([u EXCEPT !.modes = Append(@, "Help")], store, Ok(<<>>))
            ELSE IF key = "Esc" THEN Escape(u, store)
            ELSE Outcome(u, store, Ok(<<>>))

\* ProblemsUi::quit_requested
quit_requested(u) == u.modes = <<>>

\* ProblemsUi::new, in FullTermUi::run before its loop.
ProblemsUi_new ==
    [modes |-> <<"SelectProblem">>,
     problem_index |-> 0,
     edit_index |-> 0,
     accept_single_enabled |-> FALSE,
     toml |-> {},
     events |-> FALSE,
     panicked |-> FALSE]

----------------------------------------------------------------------------
(* Specification SpecUi: the screen is shown over an empty problem store;  *)
(* the build adds problems and tells the user interface, the user presses  *)
(* keys.                                                                   *)

\* Most problems in the store.
MaxStore == 2

\* Deepest stack of modes.
MaxModes == 2

\* The problems the build reports: a message, a disallowed use of an API
\* found twice with different debug data, and the choice of a sandbox.
UiProblems ==
    {Problem("Message", <<"m">>), Problem("SelectSandbox", <<>>)}
      \cup {create_problem(Primary(TestPackageId(3)),
                           <<"n", "e", "t">> :> <<create_usage(<<"a", "a", "a">>, <<"n", "e", "t", "_", "s", "t", "u", "f", "f">>, debug_data)>>) :
              debug_data \in {"d1", "d2"}}

InitUi ==
    /\ NoChecker
    /\ NoProxy
    /\ NoProblems
    /\ ui = ProblemsUi_new

\* The screen after an operation: a panic ends the thread that runs it.
Taken(outcome) == [outcome.ui EXCEPT !.panicked = (outcome.result = Panic)]

\* Another thread adds a problem to the store and sends ProblemsAdded.  The
\* build reports no problem that the configuration already settles.
AddProblemFrom(reported_problems) ==
    /\ ~ui.panicked
    /\ Len(problems) < MaxStore
    /\ \E problem \in reported_problems :
          /\ \A i \in DOMAIN fixes_for_problem(problem) :
                fixes_for_problem(problem)[i].title \notin ui.toml
          /\ problems' = Append(problems, problem)
    /\ ui' = [ui EXCEPT !.events = TRUE]
    /\ observed' = [op |-> "add_problem"]
    /\ UNCHANGED <<checkerVars, id_calls, metadata, crate_index, proxyVars>>

AddProblem == AddProblemFrom(UiProblems)

\* FullTermUi::run, Ok(AppEvent::ProblemsAdded)
ProblemsAdded ==
    /\ ~ui.panicked
    /\ ui.events
    /\ \E failure \in IF ui.accept_single_enabled THEN Failures ELSE {None} :
          LET outcome == problems_added([ui EXCEPT !.events = FALSE], problems, failure)
          IN /\ ui' = Taken(outcome)
             /\ problems' = outcome.problems
             /\ observed' = [op |-> "problems_added", result |-> outcome.result]
    /\ UNCHANGED <<checkerVars, id_calls, metadata, crate_index, proxyVars>>

\* Whether the key makes handle_key apply edits.
AppliesEdits(u, key) ==
    /\ u.modes # <<>>
    /\ \/ u.modes[Len(u.modes)] = "SelectEdit" /\ key \in {" ", "Enter"}
       \/ u.modes[Len(u.modes)] = "PromptAutoAccept" /\ key = "Enter"

\* FullTermUi::run, a key is read and goes to handle_key.  What fails is
\* chosen where edits are applied.
KeyPressed ==
    /\ ~ui.panicked
    /\ \E key \in KeyCodes :
          /\ key \in {"h", "?"} => Len(ui.modes) < MaxModes
          /\ \E failure \in IF AppliesEdits(ui, key) THEN Failures ELSE {None} :
                LET outcome == handle_key(ui, problems, key, failure)
                IN /\ ui' = Taken(outcome)
                   /\ problems' = outcome.problems
                   /\ observed' = [op |-> "handle_key", key |-> key,
                                   result |-> outcome.result]
    /\ UNCHANGED <<checkerVars, id_calls, metadata, crate_index, proxyVars>>

NextUi == AddProblem \/ ProblemsAdded \/ KeyPressed

SpecUi == InitUi /\ [][NextUi]_vars

----------------------------------------------------------------------------
(* Specification SpecEdits: the screen over a build that reports unsafe    *)
(* code, whose edit introduces a follow-up problem, and the choice of a    *)
(* sandbox.                                                                *)

\* The problems this build reports.
EditProblems ==
    {Problem("DisallowedUnsafe", UnsafeUsage(Primary(TestPackageId(i)), <<>>)) :
        i \in {1, 3}}
      \cup {Problem("SelectSandbox", <<>>)}

AddEditProblem == AddProblemFrom(EditProblems)

NextEdits == AddEditProblem \/ ProblemsAdded \/ KeyPressed

SpecEdits == InitUi /\ [][NextEdits]_vars

----------------------------------------------------------------------------
(* Specification SpecRun: the loop of FullTermUi::run                      *)
(* (src/src/ui/full_term.rs).  `ui` holds the screen and, next to it, the  *)
(* locals of run (where the loop stands, needs_redraw, the error shown in  *)
(* the popup, what run returned) and how many problems of the store the    *)
(* last abort() has marked; `channels` holds the event channel and the     *)
(* abort channel.  The build reports a message, which has no edits, so the *)
(* store only grows.                                                       *)

\* The problems this build reports.
RunProblems == {Problem("Message", <<"m">>)}

\* The locals of run before its loop, and a store of which nothing is
\* aborted.
RunLocals ==
    [pc |-> "loop", needs_redraw |-> TRUE, error |-> Nothing,
     returned |-> Nothing, aborted |-> 0]

InitRun ==
    /\ NoChecker
    /\ metadata = <<>>
    /\ crate_index = <<>>
    /\ problems = <<>>
    /\ observed = NoObservation
    /\ driver = [pc |-> "not called"]
    /\ cargo_process = [state |-> "not spawned"]
    /\ output_threads = <<>>
    /\ connections = <<>>
    /\ channels = [events |-> <<>>, shutdown_sent |-> FALSE,
                   disconnected |-> FALSE, abort |-> FALSE]
    /\ ui = ProblemsUi_new @@ RunLocals

\* ProblemStore::abort: all problems in the store are marked.
abort(u, store) == [u EXCEPT !.aborted = Len(store)]

\* Mutant of AbortIfQuit: the store is aborted and the abort sent on the
\* first iteration after the request only.
AbortIfQuit_Once(u, store, ch) ==
    IF quit_requested(u) /\ ~ch.abort
    THEN [ui |-> abort(u, store), channels |-> [ch EXCEPT !.abort = TRUE]]
    ELSE [ui |-> u, channels |-> ch]

\* run, the top of the loop: if screen.quit_requested() the store is
\* aborted and () sent on abort_sender.
AbortIfQuit(u, store, ch) ==
    IF quit_requested(u)
    THEN [ui |-> abort(u, store), channels |-> [ch EXCEPT !.abort = TRUE]]
    ELSE [ui |-> u, channels |-> ch]

\* run returns: Ok(()) on Shutdown or Disconnected, the error of
\* terminal.draw or crossterm::event::poll otherwise.
RunReturn(u, on) ==
    [u EXCEPT !.pc = "returned",
              !.returned = Some([on |-> on,
                                 result |-> IF on \in {"Shutdown", "Disconnected"}
                                            THEN Ok(<<>>) ELSE Err([kind |-> on])])]

\* run, from the top of the loop to try_recv: the abort if quit is
\* requested, and the draw if needs_redraw, which can fail.
RunLoop ==
    /\ ui.pc = "loop"
    /\ ~ui.panicked
    /\ LET top == AbortIfQuit(ui, problems, channels)
       IN /\ channels' = top.channels
          /\ \E drawn \in IF ui.needs_redraw THEN BOOLEAN ELSE {TRUE} :
                ui' = IF drawn
                      THEN [top.ui EXCEPT !.needs_redraw = FALSE, !.pc = "recv"]
                      ELSE RunReturn(top.ui, "draw")
    /\ observed' = [op |-> "run_loop", quit |-> quit_requested(ui)]
    /\ UNCHANGED <<checkerVars, id_calls, metadata, crate_index, problems,
                   driver, cargo_process, output_threads, connections>>

\* run, event_receiver.try_recv() gives an event: ProblemsAdded goes to
\* the screen, Shutdown returns.
RunEvent ==
    /\ ui.pc = "recv"
    /\ ~ui.panicked
    /\ channels.events # <<>>
    /\ channels' = [channels EXCEPT !.events = Tail(@)]
    /\ IF Head(channels.events) = "Shutdown"
       THEN /\ ui' = RunReturn(ui, "Shutdown")
            /\ observed' = [op |-> "shutdown"]
       ELSE \E failure \in IF ui.accept_single_enabled THEN Failures ELSE {None} :
               LET outcome == problems_added(ui, problems, failure)
               IN /\ ui' = [Taken(outcome) EXCEPT
                               !.needs_redraw = TRUE,
                               !.error = IF outcome.result.ok THEN @
                                         ELSE Some(outcome.result.error),
                               !.pc = "loop"]
                  /\ observed' = [op |-> "problems_added", result |-> outcome.result]
    /\ UNCHANGED <<checkerVars, id_calls, metadata, crate_index, problems,
                   driver, cargo_process, output_threads, connections>>

\* run, Err(TryRecvError::Disconnected)
RunDisconnected ==
    /\ ui.pc = "recv"
    /\ ~ui.panicked
    /\ channels.events = <<>>
    /\ channels.disconnected
    /\ ui' = RunReturn(ui, "Disconnected")
    /\ observed' = [op |-> "disconnected"]
    /\ UNCHANGED <<checkerVars, id_calls, metadata, crate_index, problems,
                   proxyVars>>

\* run, Err(TryRecvError::Empty): the poll for a key fails, or times out.
RunPoll ==
    /\ ui.pc = "recv"
    /\ ~ui.panicked
    /\ channels.events = <<>>
    /\ ~channels.disconnected
    /\ \E polled \in BOOLEAN :
          ui' = IF polled THEN [ui EXCEPT !.pc = "loop"] ELSE RunReturn(ui, "poll")
    /\ observed' = [op |-> "poll"]
    /\ UNCHANGED <<checkerVars, id_calls, metadata, crate_index, problems,
                   proxyVars>>

\* run, Err(TryRecvError::Empty) and a key is read: the key dismisses the
\* error popup if there is one (q aborts the store all the same), and goes
\* to handle_key otherwise.
RunKey ==
    /\ ui.pc = "recv"
    /\ ~ui.panicked
    /\ channels.events = <<>>
    /\ ~channels.disconnected
    /\ \E key \in KeyCodes :
          /\ key \in {"h", "?"} => Len(ui.modes) < MaxModes
          /\ IF ui.error.some
             THEN /\ ui' = [(IF key = "q" THEN abort(ui, problems) ELSE ui) EXCEPT
                               !.needs_redraw = TRUE, !.error = Nothing,
                               !.pc = "loop"]
                  /\ observed' = [op |-> "dismiss", key |-> key]
             ELSE \E failure \in IF AppliesEdits(ui, key) THEN Failures ELSE {None} :
                     LET outcome == handle_key(ui, problems, key, failure)
                     IN /\ ui' = [Taken(outcome) EXCEPT
                                     !.needs_redraw = TRUE,
                                     !.error = IF outcome.result = Panic
                                                  \/ outcome.result.ok THEN @
                                               ELSE Some(outcome.result.error),
                                     !.pc = "loop"]
                        /\ observed' = [op |-> "handle_key", key |-> key,
                                        result |-> outcome.result]
    /\ UNCHANGED <<checkerVars, id_calls, metadata, crate_index, problems,
                   proxyVars>>

\* A handler thread adds a problem to the store and sends ProblemsAdded.
RunAddProblem ==
    /\ ~channels.disconnected
    /\ Len(problems) < MaxStore
    /\ \E problem \in RunProblems : problems' = Append(problems, problem)
    /\ channels' = [channels EXCEPT !.events = Append(@, "ProblemsAdded")]
    /\ observed' = [op |-> "add_problem"]
    /\ UNCHANGED <<checkerVars, id_calls, metadata, crate_index, ui,
                   driver, cargo_process, output_threads, connections>>

\* The main thread sends Shutdown, once.
SendShutdown ==
    /\ ~channels.disconnected
    /\ ~channels.shutdown_sent
    /\ channels' = [channels EXCEPT !.events = Append(@, "Shutdown"),
                                    !.shutdown_sent = TRUE]
    /\ observed' = [op |-> "send_shutdown"]
    /\ UNCHANGED <<checkerVars, id_calls, metadata, crate_index, problems, ui,
                   driver, cargo_process, output_threads, connections>>

\* The last sender of the event channel is dropped.
Disconnect ==
    /\ ~channels.disconnected
    /\ channels' = [channels EXCEPT !.disconnected = TRUE]
    /\ observed' = [op |-> "disconnect"]
    /\ UNCHANGED <<checkerVars, id_calls, metadata, crate_index, problems, ui,
                   driver, cargo_process, output_threads, connections>>

\* The thread that runs the user interface.
UiThread == RunLoop \/ RunEvent \/ RunDisconnected \/ RunPoll \/ RunKey

NextRun == UiThread \/ RunAddProblem \/ SendShutdown \/ Disconnect

SpecRun == InitRun /\ [][NextRun]_vars

\* The thread that runs the loop keeps running: the poll for a key waits
\* 100 ms at most.
SpecRunFair == SpecRun /\ WF_vars(UiThread)

----------------------------------------------------------------------------
(* Specification SpecGroup: grouped_by_type_crate_and_api on lists of      *)
(* disallowed API usages of packages and permissions whose names may       *)
(* contain '-'.                                                            *)

\* The packages: a, a-b and d, one version of each.
GroupPackages ==
    <<[name |-> <<"a">>, version |-> Version(0, 1, 0)],
      [name |-> <<"a", "-", "b">>, version |-> Version(0, 1, 0)],
      [name |-> <<"d">>, version |-> Version(0, 1, 0)]>>

\* The permissions: c and b-c.
GroupPermissions == {<<"c">>, <<"b", "-", "c">>}

\* The disallowed usages of one permission by one package; the usage names
\* the package it was found in.
GroupProblems ==
    {create_problem(Primary(NewPackageId(GroupPackages, GroupPackages[i])),
                    permission :> <<create_usage(GroupPackages[i].name, permission, None)>>) :
        i \in DOMAIN GroupPackages, permission \in GroupPermissions}

InitGroup ==
    /\ NoChecker
    /\ NoProxy
    /\ NoUi
    /\ metadata = <<>>
    /\ crate_index = <<>>
    /\ observed = NoObservation
    /\ problems \in UNION {[1 .. n -> GroupProblems] : n \in 0 .. MaxProblems}

\* problems = problems.grouped_by_type_crate_and_api()
GroupedByTypeCrateAndApi ==
    /\ observed = NoObservation
    /\ problems' = grouped_by_type_crate_and_api(problems)
    /\ observed' = [op |-> "grouped_by_type_crate_and_api",
                    input |-> problems,
                    output |-> problems']
    /\ UNCHANGED <<checkerVars, id_calls, metadata, crate_index, proxyVars, ui>>

NextGroup == GroupedByTypeCrateAndApi

SpecGroup == InitGroup /\ [][NextGroup]_vars

----------------------------------------------------------------------------
(* What the configuration says, read from `config` itself and not from the *)
(* checker's tables.                                                       *)

\* parts[0..k].join("::")
Prefix(parts, k) == Join(SubSeq(parts, 1, k))

ConfigIncludes(cfg, perm, prefix) ==
    \E i \in DOMAIN cfg.perms :
        cfg.perms[i].name = perm /\ prefix \in Range(cfg.perms[i].include)

ConfigExcludes(cfg, perm, prefix) ==
    \E i \in DOMAIN cfg.perms :
        cfg.perms[i].name = perm /\ prefix \in Range(cfg.perms[i].exclude)

ConfigMentions(cfg, perm, prefix) ==
    ConfigIncludes(cfg, perm, prefix) \/ ConfigExcludes(cfg, perm, prefix)

\* The brute-force definition: over the prefixes of length 1..k, left to
\* right, add what the prefix includes and then remove what it excludes.
RECURSIVE BruteForce(_, _, _)
BruteForce(cfg, parts, k) ==
    IF k = 0 THEN {}
    ELSE (BruteForce(cfg, parts, k - 1)
            \cup {p \in PermNames : ConfigIncludes(cfg, p, Prefix(parts, k))})
         \ {p \in PermNames : ConfigExcludes(cfg, p, Prefix(parts, k))}

\* The lengths of the prefixes of parts that carry a rule for perm.
MentionedAt(cfg, perm, parts) ==
    {k \in 1..Len(parts) : ConfigMentions(cfg, perm, Prefix(parts, k))}

Max(S) == CHOOSE x \in S : \A y \in S : y <= x

\* The configuration without the sections of the other permissions.
OnlyPerm(cfg, perm) ==
    [cfg EXCEPT !.perms = SelectSeq(@, LAMBDA api : api.name = perm)]

PermIds(ck) == 0..(Len(ck.permission_names) - 1)

----------------------------------------------------------------------------
(* Claims about apis_for_path, checked under SpecApis                      *)

C2_ExcludeWinsAtSamePrefix ==
    query.asked =>
        \A p \in PermNames : \A k \in 1..Len(query.path) :
            ( /\ ConfigIncludes(config, p, Prefix(query.path, k))
              /\ ConfigExcludes(config, p, Prefix(query.path, k))
              /\ k = Max(MentionedAt(config, p, query.path)) )
            => p \notin NamesOf(checker, query.apis)

\* C2 witness: a permission included at a shorter prefix, and both included
\* and excluded at the longest prefix of the asked path.
C2_Witness ==
    /\ query.asked
    /\ Len(query.path) = 2
    /\ \E p \in PermNames :
          /\ ConfigIncludes(config, p, Prefix(query.path, 1))
          /\ ConfigIncludes(config, p, Prefix(query.path, 2))
          /\ ConfigExcludes(config, p, Prefix(query.path, 2))
          /\ p \notin NamesOf(checker, query.apis)

\* C3: the rule at the longest prefix that mentions a permission decides:
\* the permission is in apis_for_path(P) if and only if some prefix of P has
\* a rule for it and at the longest such prefix it is included and not
\* excluded.
C3_LongestPrefixDecides ==
    query.asked =>
        \A p \in PermNames :
            LET at == MentionedAt(config, p, query.path)
            IN (p \in NamesOf(checker, query.apis))
                 <=> ( /\ at # {}
                       /\ ConfigIncludes(config, p, Prefix(query.path, Max(at)))
                       /\ ~ConfigExcludes(config, p, Prefix(query.path, Max(at))) )

\* C3 witness: an exclude at a shorter prefix overridden by an include at a
\* longer prefix, next to a permission whose include at the shorter prefix
\* stands.
C3_Witness ==
    /\ query.asked
    /\ Len(query.path) = 2
    /\ \E p \in PermNames :
          /\ ConfigExcludes(config, p, Prefix(query.path, 1))
          /\ ~ConfigIncludes(config, p, Prefix(query.path, 1))
          /\ ConfigIncludes(config, p, Prefix(query.path, 2))
          /\ p \in NamesOf(checker, query.apis)
    /\ \E p \in PermNames :
          /\ ConfigIncludes(config, p, Prefix(query.path, 1))
          /\ MentionedAt(config, p, query.path) = {1}
          /\ p \in NamesOf(checker, query.apis)

\* No prefix of parts is a key of the inclusions of any permission.
NoInclusionPrefix(cfg, parts) ==
    \A k \in 1..Len(parts) : \A p \in PermNames :
        ~ConfigIncludes(cfg, p, Prefix(parts, k))

\* C4: apis_for_path returns the empty set for an empty name_parts and for
\* every path none of whose prefixes is an inclusion key, and path_used for
\* such a path leaves unused_allowed and disallowed_usage of every crate
\* as they were.
C4_NoInclusionNoPermission ==
    (query.asked /\ NoInclusionPrefix(config, query.path)) =>
        /\ query.apis = {}
        /\ \A crate_id \in CrateIds(checker) : \A usage \in Usages :
              LET after == path_used(checker, crate_id, query.path, usage)
                  was == checker.crate_infos
              IN /\ Len(after.crate_infos) = Len(was)
                 /\ \A i \in DOMAIN was :
                       /\ after.crate_infos[i].unused_allowed_perms
                            = was[i].unused_allowed_perms
                       /\ after.crate_infos[i].disallowed_usage
                            = was[i].disallowed_usage

\* C4 witness: a path was asked that has an exclude rule on itself but no
\* inclusion key among its prefixes, under a configuration that includes
\* another prefix and a checker whose package still has unused permissions.
C4_Witness ==
    /\ query.asked
    /\ Len(query.path) = 2
    /\ NoInclusionPrefix(config, query.path)
    /\ \E p \in PermNames : ConfigExcludes(config, p, Prefix(query.path, 2))
    /\ \E p \in PermNames : \E key \in Keys : ConfigIncludes(config, p, key)
    /\ query.apis = {}
    /\ checker.crate_infos[2].unused_allowed_perms # {}

\* C5: exclusions act per permission: whether a permission is in
\* apis_for_path(P) is what a checker built from that permission's rules
\* alone answers, whatever the rules of the other permissions.
C5_ExclusionsActPerPermission ==
    query.asked =>
        \A p \in PermNames :
            LET alone == from_config(OnlyPerm(config, p))
            IN (p \in NamesOf(checker, query.apis))
                 <=> (p \in NamesOf(alone, apis_for_path(alone, query.path)))

\* C5 witness: two permissions include the same prefix, only one of them
\* excludes a longer prefix, and the path under the excluded prefix yields
\* the other permission alone.
C5_Witness ==
    /\ query.asked
    /\ Len(query.path) = 2
    /\ \E pa, pb \in PermNames :
          /\ pa # pb
          /\ ConfigIncludes(config, pa, Prefix(query.path, 1))
          /\ ConfigIncludes(config, pb, Prefix(query.path, 1))
          /\ ConfigExcludes(config, pa, Prefix(query.path, 2))
          /\ MentionedAt(config, pb, query.path) = {1}
          /\ NamesOf(checker, query.apis) = {pb}

----------------------------------------------------------------------------
(* Claims about the accounting of the checker, checked under Spec          *)

\* The permissions the configuration allows a crate, by name.
ConfigAllowed(cfg, crate_name) ==
    UNION {Range(cfg.crates[i].allow) :
              i \in {j \in DOMAIN cfg.crates : cfg.crates[j].name = crate_name}}

ConfigMentionsCrate(cfg, crate_name) ==
    \E i \in DOMAIN cfg.crates : cfg.crates[i].name = crate_name

\* The permissions matched by the paths reported so far for a crate.
ObservedUsed(crate_id) ==
    UNION {apis_for_path(checker, calls[i].name_parts) :
              i \in {j \in DOMAIN calls : calls[j].crate_id = crate_id}}

\* The usages of the calls so far by a crate whose path matched a
\* permission, in call order.
UsagesReported(crate_id, id) ==
    LET hits == SelectSeq(calls, LAMBDA c :
                    /\ c.crate_id = crate_id
                    /\ id \in apis_for_path(checker, c.name_parts))
    IN [k \in DOMAIN hits |-> hits[k].usage]

\* The usages recorded for a permission, none when it has no entry.
UsagesAt(crate_info, id) ==
    IF id \in DOMAIN crate_info.disallowed_usage
    THEN crate_info.disallowed_usage[id]
    ELSE <<>>

\* C6: in every reachable state of the checker, every crate's
\* unused_allowed_perms is a subset of its allowed_perms.
C6_UnusedSubsetOfAllowed ==
    \A i \in DOMAIN checker.crate_infos :
        checker.crate_infos[i].unused_allowed_perms
            \subseteq checker.crate_infos[i].allowed_perms

\* C6 witness: after a path_used call, a crate has some but not all of its
\* allowed permissions left unused.
C6_Witness ==
    /\ calls # <<>>
    /\ \E i \in DOMAIN checker.crate_infos :
          /\ checker.crate_infos[i].unused_allowed_perms # {}
          /\ checker.crate_infos[i].unused_allowed_perms
                # checker.crate_infos[i].allowed_perms

\* C7: a path_used call removes each permission of apis_for_path(parts)
\* from the calling crate's unused_allowed, appends one usage to
\* disallowed_usage[permission] if the crate is not allowed the permission
\* and leaves disallowed_usage as it was if it is; for every other
\* permission and every other crate it changes neither.
C7_PathUsedRecordsEachPermission ==
    [][ (calls' # calls) =>
          LET call == calls'[Len(calls')]
              apis == apis_for_path(checker, call.name_parts)
          IN /\ Len(checker'.crate_infos) = Len(checker.crate_infos)
             /\ \A i \in DOMAIN checker.crate_infos :
                   LET before == checker.crate_infos[i]
                       after == checker'.crate_infos[i]
                   IN /\ DOMAIN after.disallowed_usage \subseteq PermIds(checker)
                      /\ \A id \in PermIds(checker) :
                            LET hit == (i = call.crate_id + 1) /\ id \in apis
                                denied == hit /\ id \notin before.allowed_perms
                            IN /\ hit => id \notin after.unused_allowed_perms
                               /\ ~hit => ( id \in after.unused_allowed_perms
                                              <=> id \in before.unused_allowed_perms )
                               /\ denied => UsagesAt(after, id)
                                              = Append(UsagesAt(before, id), call.usage)
                               /\ ~denied =>
                                    /\ UsagesAt(after, id) = UsagesAt(before, id)
                                    /\ id \in DOMAIN after.disallowed_usage
                                         <=> id \in DOMAIN before.disallowed_usage
      ]_vars

\* C7 witness: the last path_used call matched two permissions of which the
\* crate is allowed one: that one has left unused_allowed and the other has
\* a recorded usage.
C7_Witness ==
    /\ calls # <<>>
    /\ LET call == calls[Len(calls)]
           crate_info == checker.crate_infos[call.crate_id + 1]
       IN \E id1, id2 \in apis_for_path(checker, call.name_parts) :
             /\ id1 \in crate_info.allowed_perms
             /\ id1 \notin crate_info.unused_allowed_perms
             /\ id1 \notin DOMAIN crate_info.disallowed_usage
             /\ id2 \notin crate_info.allowed_perms
             /\ id2 \in DOMAIN crate_info.disallowed_usage

\* C8: after any sequence of path_used calls, every crate's unused_allowed
\* is what the configuration allows it minus the permissions matched by the
\* paths reported for that crate; the paths reported for other crates do
\* not enter.
C8_UnusedIsAllowedMinusObserved ==
    \A i \in DOMAIN checker.crate_infos :
        /\ checker.crate_infos[i].unused_allowed_perms \subseteq PermIds(checker)
        /\ NamesOf(checker, checker.crate_infos[i].unused_allowed_perms)
             = ConfigAllowed(config, checker.crate_infos[i].name)
                 \ NamesOf(checker, ObservedUsed(i - 1))

\* C8 witness: two crates are allowed the same permission, paths matching
\* it were reported for one of them only, and only that crate has it no
\* longer unused.
C8_Witness ==
    /\ Len(calls) = 2
    /\ \E i, j \in DOMAIN checker.crate_infos : \E id \in PermIds(checker) :
          /\ i # j
          /\ id \in checker.crate_infos[i].allowed_perms
          /\ id \in checker.crate_infos[j].allowed_perms
          /\ id \in ObservedUsed(i - 1)
          /\ id \notin ObservedUsed(j - 1)
          /\ id \notin checker.crate_infos[i].unused_allowed_perms
          /\ id \in checker.crate_infos[j].unused_allowed_perms

\* C9: disallowed usages accumulate under one key per crate and permission:
\* for a permission the crate is not allowed, disallowed_usage holds exactly
\* the usages of the crate's calls whose path matched it, in call order (no
\* entry when there was none); an allowed permission that no reported path
\* matched stays in unused_allowed.
C9_DisallowedUsagesAccumulate ==
    \A i \in DOMAIN checker.crate_infos :
        LET crate_info == checker.crate_infos[i]
            allowed == ConfigAllowed(config, crate_info.name)
        IN /\ DOMAIN crate_info.disallowed_usage \subseteq PermIds(checker)
           /\ \A id \in PermIds(checker) :
                 /\ permission_name(checker, id) \notin allowed =>
                       /\ UsagesAt(crate_info, id) = UsagesReported(i - 1, id)
                       /\ id \in DOMAIN crate_info.disallowed_usage
                            <=> UsagesReported(i - 1, id) # <<>>
                 /\ ( /\ permission_name(checker, id) \in allowed
                      /\ id \notin ObservedUsed(i - 1) )
                    => id \in crate_info.unused_allowed_perms

\* C9 witness: a crate made two calls for a path matching a permission it
\* is not allowed, with different usages; both are recorded and the
\* permission it is allowed is still unused.
C9_Witness ==
    \E i \in DOMAIN checker.crate_infos : \E id \in PermIds(checker) :
        LET crate_info == checker.crate_infos[i]
        IN /\ id \in DOMAIN crate_info.disallowed_usage
           /\ Len(crate_info.disallowed_usage[id]) = 2
           /\ crate_info.disallowed_usage[id][1] # crate_info.disallowed_usage[id][2]
           /\ crate_info.allowed_perms # {}
           /\ crate_info.unused_allowed_perms = crate_info.allowed_perms

\* The crate names for which report_crate_used was called.
ReportedNames ==
    {n \in DOMAIN checker.crate_name_to_index :
        checker.crate_name_to_index[n] \in reported}

\* The packages the configuration mentions that were never reported used.
NotInTreeNames ==
    {n \in CrateNames : ConfigMentionsCrate(config, n) /\ n \notin ReportedNames}

\* unknown_crates of the result of check_unused.
UnknownCrates ==
    LET result == check_unused(checker)
    IN IF result.ok THEN <<>> ELSE result.err.unknown_crates

\* C10: check_unused lists a package as not in the dependency tree exactly
\* once if the configuration mentions it and report_crate_used was never
\* called for it, and never otherwise; it returns Ok only when there is no
\* such package and no crate has a non-empty unused_allowed.
C10_UnknownCratesListedOnce ==
    /\ Range(UnknownCrates) \subseteq CrateNames
    /\ \A n \in CrateNames :
          Cardinality({k \in DOMAIN UnknownCrates : UnknownCrates[k] = n})
            = IF n \in NotInTreeNames THEN 1 ELSE 0
    /\ check_unused(checker).ok =>
          /\ NotInTreeNames = {}
          /\ \A i \in DOMAIN checker.crate_infos :
                checker.crate_infos[i].unused_allowed_perms = {}

\* C10 witness: of two configured packages one was reported used and the
\* other was not, and check_unused lists the other package alone.
C10_Witness ==
    /\ reported # {}
    /\ \E n, m \in CrateNames :
          /\ ConfigMentionsCrate(config, n)
          /\ ConfigMentionsCrate(config, m)
          /\ n \in ReportedNames
          /\ UnknownCrates = <<m>>

----------------------------------------------------------------------------
(* Claims about the verdict and the id tables                              *)

\* The calls so far whose path matched a permission that the configuration
\* does not allow the calling crate.
DeniedCalls ==
    {j \in DOMAIN calls :
        \E p \in BruteForce(config, calls[j].name_parts,
                            Len(calls[j].name_parts)) :
            p \notin ConfigAllowed(config,
                        checker.crate_infos[calls[j].crate_id + 1].name)}

\* C11: the verdict is Deny if and only if at least one crate, the unknown
\* crate included, has a recorded disallowed usage; after any sequence of
\* path_used calls report_problems returns Proceed exactly when every
\* permission matched by every reported path was in the allow list of the
\* crate that used it.
C11_DenyIffDisallowedUsage ==
    /\ report_problems(checker) \in {Deny, Proceed}
    /\ report_problems(checker) = Deny
          <=> \E i \in DOMAIN checker.crate_infos : \E id \in PermIds(checker) :
                 UsagesAt(checker.crate_infos[i], id) # <<>>
    /\ report_problems(checker) = Proceed <=> DeniedCalls = {}

\* C11 witness: the only denied calls were made by the unknown crate, next
\* to a call by a named crate that was allowed what its path matched, and
\* the verdict is Deny.
C11_Witness ==
    /\ Len(calls) = 2
    /\ DeniedCalls # {}
    /\ \A j \in DeniedCalls : calls[j].crate_id = UNKNOWN_CRATE_ID
    /\ \E j \in DOMAIN calls :
          /\ calls[j].crate_id # UNKNOWN_CRATE_ID
          /\ apis_for_path(checker, calls[j].name_parts) # {}
    /\ report_problems(checker) = Deny

\* The positions of the logged calls of one function.
CallsOf(log, fn) == {i \in DOMAIN log : log[i].fn = fn}

\* Whether a table (a Vec or a HashMap) still holds every entry it held.
Extends(after, before) ==
    /\ DOMAIN before \subseteq DOMAIN after
    /\ \A k \in DOMAIN before : after[k] = before[k]

\* C12: permission ids are stable and the permission-name table is
\* append-only: perm_id returns the same id for every call with one name
\* and different ids for different names, no step changes or removes an
\* entry of permission_names or permission_name_to_id, and
\* permission_name(perm_id(n)) = n at every later point of the run.
C12_PermIdsStable ==
    [][ /\ Extends(checker'.permission_names, checker.permission_names)
        /\ Extends(checker'.permission_name_to_id, checker.permission_name_to_id)
        /\ \A i, j \in CallsOf(id_calls', "perm_id") :
              (id_calls'[i].name = id_calls'[j].name)
                 <=> (id_calls'[i].id = id_calls'[j].id)
        /\ \A i \in CallsOf(id_calls', "perm_id") :
              /\ id_calls'[i].id \in PermIds(checker')
              /\ permission_name(checker', id_calls'[i].id) = id_calls'[i].name
        /\ \A n \in DOMAIN checker'.permission_name_to_id :
              /\ checker'.permission_name_to_id[n] \in PermIds(checker')
              /\ permission_name(checker', checker'.permission_name_to_id[n]) = n
      ]_vars

\* C12 witness: a name that the configuration does not know was asked
\* twice, with another new name asked in between, and got one id.
C12_Witness ==
    /\ Len(id_calls) = 3
    /\ \A i \in 1..3 : id_calls[i].fn = "perm_id"
    /\ id_calls[1].name = "net"
    /\ id_calls[2].name = "proc"
    /\ id_calls[3].name = "net"
    /\ id_calls[1].id = id_calls[3].id
    /\ id_calls[2].id = id_calls[1].id + 1

\* C13: CrateId 0 is always the unknown crate: after from_config and any
\* sequence of crate_id_from_name calls crate_infos[0] has no name,
\* crate_id_from_name never returns 0, returns the same id for repeated
\* calls with one name and different ids for different names, and the
\* CrateInfo of every other id carries the name the id was created for.
C13_UnknownCrateIsZero ==
    /\ checker.crate_infos[UNKNOWN_CRATE_ID + 1].name = None
    /\ \A i \in CallsOf(id_calls, "crate_id_from_name") :
          /\ id_calls[i].id \in CrateIds(checker) \ {UNKNOWN_CRATE_ID}
          /\ checker.crate_infos[id_calls[i].id + 1].name = id_calls[i].name
    /\ \A i, j \in CallsOf(id_calls, "crate_id_from_name") :
          (id_calls[i].name = id_calls[j].name)
             <=> (id_calls[i].id = id_calls[j].id)
    /\ \A crate_id \in CrateIds(checker) \ {UNKNOWN_CRATE_ID} :
          LET name == checker.crate_infos[crate_id + 1].name
          IN /\ name # None
             /\ name \in DOMAIN checker.crate_name_to_index
             /\ checker.crate_name_to_index[name] = crate_id

\* C13 witness: a crate that the configuration names and a crate that it
\* does not were asked, the second one twice; each has its own id, not 0.
C13_Witness ==
    /\ Len(id_calls) = 3
    /\ \A i \in 1..3 : id_calls[i].fn = "crate_id_from_name"
    /\ ConfigMentionsCrate(config, id_calls[2].name)
    /\ ~ConfigMentionsCrate(config, id_calls[1].name)
    /\ id_calls[3].name = id_calls[1].name
    /\ id_calls[3].id = id_calls[1].id
    /\ id_calls[2].id # id_calls[1].id
    /\ id_calls[2].id > UNKNOWN_CRATE_ID
----------------------------------------------------------------------------
(* Claims about problem lists, checked under SpecProblems                  *)

\* The positions of a list that hold a DisallowedApiUsage of a crate.
UsagesOfCrate(list, crate_sel) ==
    {i \in DOMAIN list :
        list[i].kind = "DisallowedApiUsage" /\ list[i].v.crate_sel = crate_sel}

\* The positions of a list that grouping keeps: every problem of another
\* kind, and the first DisallowedApiUsage of each crate.
Kept(list) ==
    {i \in DOMAIN list :
        list[i].kind = "DisallowedApiUsage"
          => \A j \in UsagesOfCrate(list, list[i].v.crate_sel) : i <= j}

\* The usages that the problems of a list at the given positions, taken in
\* ascending order, hold for a permission.
RECURSIVE UsagesInOrder(_, _, _)
UsagesInOrder(list, at, perm) ==
    IF at = {} THEN <<>>
    ELSE LET i == CHOOSE x \in at : \A y \in at : x <= y
         IN (IF perm \in DOMAIN list[i].v.usages
             THEN list[i].v.usages[perm] ELSE <<>>)
              \o UsagesInOrder(list, at \ {i}, perm)

\* The k-th smallest element of a set of numbers.
Nth(S, k) == CHOOSE x \in S : Cardinality({y \in S : y <= x}) = k

\* Whether `output` is `input` with the disallowed API usages of each crate
\* merged into the first of them.
MergedPerCrate(input, output) ==
    /\ Len(output) = Cardinality(Kept(input))
    /\ \A k \in DOMAIN output :
          LET i == Nth(Kept(input), k)
          IN IF input[i].kind # "DisallowedApiUsage"
             THEN output[k] = input[i]
             ELSE LET same == UsagesOfCrate(input, input[i].v.crate_sel)
                  IN /\ output[k].kind = "DisallowedApiUsage"
                     /\ output[k].v.crate_sel = input[i].v.crate_sel
                     /\ DOMAIN output[k].v.usages
                          = UNION {DOMAIN input[j].v.usages : j \in same}
                     /\ \A perm \in DOMAIN output[k].v.usages :
                           output[k].v.usages[perm]
                             = UsagesInOrder(input, same, perm)
    /\ \A k1, k2 \in DOMAIN output :
          ( /\ k1 # k2
            /\ output[k1].kind = "DisallowedApiUsage"
            /\ output[k2].kind = "DisallowedApiUsage" )
          => output[k1].v.crate_sel # output[k2].v.crate_sel

\* C14: grouped_by_type_and_crate merges all DisallowedApiUsage problems of
\* one crate into a single problem: the result has at most one
\* DisallowedApiUsage per crate, placed where that crate's first one stood,
\* its usage list for each permission is the concatenation of the inputs'
\* lists in input order, and every problem of another kind keeps its place
\* among the others.
C14_GroupingMergesPerCrate ==
    observed.op = "grouped_by_type_and_crate"
        => MergedPerCrate(observed.input, observed.output)

\* C14 witness: three disallowed API usages of one crate, the first and the
\* last for one permission with different usages, were merged into one
\* problem that holds both usages in input order.
C14_Witness ==
    /\ observed.op = "grouped_by_type_and_crate"
    /\ observed.times = 1
    /\ Len(observed.input) = 3
    /\ \A i \in 1..3 : observed.input[i].kind = "DisallowedApiUsage"
    /\ Len(observed.output) = 1
    /\ \E perm \in DOMAIN observed.output[1].v.usages :
          /\ perm \in DOMAIN observed.input[1].v.usages
          /\ perm \in DOMAIN observed.input[3].v.usages
          /\ Len(observed.output[1].v.usages[perm]) = 2
          /\ observed.output[1].v.usages[perm]
               = observed.input[1].v.usages[perm]
                   \o observed.input[3].v.usages[perm]
          /\ observed.input[1].v.usages[perm] # observed.input[3].v.usages[perm]
          /\ perm \notin DOMAIN observed.input[2].v.usages

\* C15: grouping is idempotent: grouped_by_type_and_crate applied to the
\* result of grouped_by_type_and_crate returns that result.
C15_GroupingIdempotent ==
    (observed.op = "grouped_by_type_and_crate" /\ observed.times = 2)
        => /\ observed.input = grouped_by_type_and_crate(observed.original)
           /\ observed.output = observed.input

\* C15 witness: a list of three problems in which the first application
\* merged two disallowed API usages of one crate, with different
\* permissions, was grouped a second time.
C15_Witness ==
    /\ observed.op = "grouped_by_type_and_crate"
    /\ observed.times = 2
    /\ Len(observed.original) = 3
    /\ Len(observed.output) = 2
    /\ \E k \in DOMAIN observed.output :
          /\ observed.output[k].kind = "DisallowedApiUsage"
          /\ Cardinality(DOMAIN observed.output[k].v.usages) = 2
----------------------------------------------------------------------------
(* Claims about single problems, checked under SpecKeys                    *)

\* The fields of an ApiUsage other than debug_data.
LastingFields ==
    {"source_location", "from", "to", "to_name", "to_source"}

\* Whether two problems differ in nothing, or only in the debug_data of
\* the usages of a DisallowedApiUsage, or only in the symbol of a
\* PossibleExportedApi.
DifferInVolatileOnly(p, q) ==
    /\ p.kind = q.kind
    /\ CASE p.kind = "DisallowedApiUsage" ->
               /\ p.v.crate_sel = q.v.crate_sel
               /\ DOMAIN p.v.usages = DOMAIN q.v.usages
               /\ \A k \in DOMAIN p.v.usages :
                     /\ Len(p.v.usages[k]) = Len(q.v.usages[k])
                     /\ \A i \in DOMAIN p.v.usages[k] : \A f \in LastingFields :
                           p.v.usages[k][i][f] = q.v.usages[k][i][f]
         [] p.kind = "PossibleExportedApi" ->
               p.v.pkg_id = q.v.pkg_id /\ p.v.api = q.v.api
         [] OTHER -> p = q

\* C16: problems with equal deduplication keys are reported once, and the
\* key ignores exactly the volatile details: two problems have equal keys if
\* and only if they differ in nothing but the debug_data of the usages of a
\* DisallowedApiUsage or the symbol of a PossibleExportedApi, and the
\* deduplication key of a key is that key.
C16_KeyIgnoresVolatileOnly ==
    /\ observed.op = "deduplication_key" =>
          /\ (observed.keys[1] = observed.keys[2])
                <=> DifferInVolatileOnly(problems[1], problems[2])
          /\ observed.again = observed.keys
    /\ observed.op = "render_problems" =>
          Len(observed.output.items)
            = IF deduplication_key(problems[1]) = deduplication_key(problems[2])
              THEN 1 ELSE 2

\* The state holds two different problems of the given kind whose keys
\* were computed and are equal.
EqualKeysOf(kind) ==
    /\ observed.op = "deduplication_key"
    /\ problems[1].kind = kind
    /\ problems[1] # problems[2]
    /\ observed.keys[1] = observed.keys[2]

\* C16 witness: two disallowed API usages that differ in the debug data of
\* one of two usages have one key, which holds no debug data.
C16_Witness ==
    /\ EqualKeysOf("DisallowedApiUsage")
    /\ \E k \in DOMAIN problems[1].v.usages :
          /\ Len(problems[1].v.usages[k]) = 2
          /\ problems[1].v.usages[k][2].debug_data # None
          /\ observed.keys[1].v.usages[k][2].debug_data = None

\* C17: for any two problems, equal deduplication keys imply an equal
\* rendered message, the Display rendering of the problem, in the plain
\* format and in the alternate format.
C17_EqualKeysEqualMessage ==
    ( /\ observed.op = "format"
      /\ deduplication_key(problems[1]) = deduplication_key(problems[2]) )
        => observed.texts[1] = observed.texts[2]

\* The policy warnings.
PolicyWarningKinds ==
    {"UnusedAllowApi", "UnusedPackageConfig", "AvailableApi",
     "PossibleExportedApi", "ImportStdApi"}

\* C18: Problem::severity is Warning for exactly the five policy-warning
\* kinds UnusedAllowApi, UnusedPackageConfig, AvailableApi,
\* PossibleExportedApi and ImportStdApi, and Error for every other kind.
C18_WarningForPolicyWarnings ==
    observed.op = "severity" =>
        \A i \in DOMAIN problems :
            observed.output[i]
              = IF problems[i].kind \in PolicyWarningKinds THEN Warning ELSE Error

\* C19: only build-script failures and disallowed-unsafe problems are
\* retried through the waiting subprocess:
\* ProblemList::should_send_retry_to_subprocess is true if and only if
\* every problem of the list is a BuildScriptFailed or a DisallowedUnsafe,
\* so a list that holds a problem of another kind never sends a retry.
C19_RetryOnlyBuildScriptAndUnsafe ==
    observed.op = "should_send_retry_to_subprocess" =>
        /\ observed.output \in BOOLEAN
        /\ observed.output
             <=> \A i \in DOMAIN observed.input :
                    observed.input[i].kind \in {"BuildScriptFailed",
                                                "DisallowedUnsafe"}
        /\ (\E i \in DOMAIN observed.input :
               observed.input[i].kind \in {"DisallowedApiUsage", "Message"})
             => ~observed.output

\* C19 witness: a list of a build-script failure and a disallowed unsafe
\* was asked and sends the retry to the subprocess.
C19_Witness ==
    /\ observed.op = "should_send_retry_to_subprocess"
    /\ Len(observed.input) >= 2
    /\ \E i, j \in DOMAIN observed.input :
          /\ observed.input[i].kind = "BuildScriptFailed"
          /\ observed.input[j].kind = "DisallowedUnsafe"
    /\ observed.output
----------------------------------------------------------------------------
(* Claims about the display of packages, checked under SpecIndex           *)

\* The versions of a package name in the dependency tree.
VersionsOf(name) ==
    {metadata[i].version : i \in {j \in DOMAIN metadata : metadata[j].name = name}}

\* Whether a text shows a version in brackets; a package name holds none.
ShowsVersion(text) == "[" \in Range(text)

\* Whether a text holds another one.
Contains(text, part) ==
    \E k \in 1..(Len(text) - Len(part) + 1) :
        SubSeq(text, k, k + Len(part) - 1) = part

\* The package of the problem that was formatted.
FormattedPackage == observed.problem.v.crate_sel.pkg_id

\* Whether the usage formatted is that of the API net by the package foo
\* 0.2.0 itself.
FooUsesNet ==
    /\ observed.op = "format"
    /\ observed.problem.v.crate_sel = Primary(FormattedPackage)
    /\ FormattedPackage.name = <<"f", "o", "o">>
    /\ FormattedPackage.version = Version(0, 2, 0)
    /\ DOMAIN observed.problem.v.usages = {<<"n", "e", "t">>}

----------------------------------------------------------------------------
(* Claims about the crate index, checked under SpecIndex and SpecIndexFair *)

\* The id the driver holds for a listed package.
DriverPackageId(package) == NewPackageId(metadata, package)

\* C21: PackageId::from_env, run in a subprocess for a package of the
\* index with the variable add_internal_env wrote, succeeds and yields the
\* driver's PackageId of that package: the same name, version and
\* name_is_unique, and name_is_unique is true exactly when one package of
\* that name is listed.
C21_FromEnvYieldsDriverId ==
    observed.op = "from_env" =>
        /\ observed.result.some
        /\ observed.result.value \in package_ids(crate_index)
        /\ observed.result.value = DriverPackageId(observed.package)
        /\ observed.result.value.name = observed.package.name
        /\ observed.result.value.version = observed.package.version
        /\ observed.result.value.name_is_unique
             <=> Cardinality({i \in DOMAIN metadata :
                                 metadata[i].name = observed.package.name}) = 1

\* C21 witness: foo is listed twice and bar once; the variable names foo,
\* and from_env has rebuilt the id of bar, marked unique, with the
\* two-digit minor version parsed back.
C21_Witness ==
    /\ observed.op = "from_env"
    /\ observed.env[MULTIPLE_VERSION_PKG_NAMES_ENV]
         = <<"f", "o", "o", ",", "f", "o", "o">>
    /\ observed.package.name = <<"b", "a", "r">>
    /\ observed.env["CARGO_PKG_VERSION"] = <<"1", ".", "1", "0", ".", "3">>
    /\ observed.result = Some([name |-> <<"b", "a", "r">>,
                               version |-> Version(1, 10, 3),
                               name_is_unique |-> TRUE])

\* The lengths of the leading parts of the path asked about that are
\* registered directories.
RegisteredAncestors(asked) ==
    {k \in 0..Len(asked) : SubSeq(asked, 1, k) \in DOMAIN crate_index.dir_to_pkg_id}

\* What package_id_for_path is to return for a path.
DeepestPackage(asked) ==
    IF RegisteredAncestors(asked) = {} THEN Nothing
    ELSE Some(crate_index.dir_to_pkg_id[
                  SubSeq(asked, 1, Max(RegisteredAncestors(asked)))])

\* C22: package_id_for_path(p) walks from p up through its parents and
\* returns the package registered for the deepest directory that is p or
\* an ancestor of p, None when no such directory is registered; a call
\* always returns, after no more turns of the loop than p has ancestors.
C22_DeepestRegisteredAncestor ==
    /\ [](observed.op = "package_id_for_path" =>
            /\ observed.turns <= Len(observed.asked) + 1
            /\ observed.returned => observed.value = DeepestPackage(observed.asked))
    /\ [](observed.op = "package_id_for_path" =>
            <>(observed.op = "package_id_for_path" /\ observed.returned))

\* C22 witness: packages are registered at /w and at /w/m; asked about a
\* file three directories below /w/m, the walk has returned the package of
\* /w/m after four turns.
C22_Witness ==
    /\ observed.op = "package_id_for_path"
    /\ observed.returned
    /\ observed.asked = <<"/", "w", "m", "src", "c", "a.c">>
    /\ <<"/", "w">> \in DOMAIN crate_index.dir_to_pkg_id
    /\ <<"/", "w", "m">> \in DOMAIN crate_index.dir_to_pkg_id
    /\ observed.turns = 4
    /\ observed.value = Some(crate_index.dir_to_pkg_id[<<"/", "w", "m">>])
    /\ observed.value # Some(crate_index.dir_to_pkg_id[<<"/", "w">>])
----------------------------------------------------------------------------
(* Claims about linker invocations, checked under SpecLink                 *)

\* The places of the arguments "-o" that have an argument after them.
OutputFlags(argv) ==
    {i \in 1..(Len(argv) - 1) : argv[i] = <<"-", "o">>}

\* The place of the first "-o" of the command line.
FirstOutputFlag(argv) ==
    CHOOSE i \in DOMAIN argv :
        argv[i] = <<"-", "o">> /\ \A j \in 1..(i - 1) : argv[j] # <<"-", "o">>

\* Whether the text ends in the given characters.
EndsWith(text, end) ==
    /\ Len(text) >= Len(end)
    /\ SubSeq(text, Len(text) - Len(end) + 1, Len(text)) = end

C23_WitnessError ==
    /\ observed.op = "link_info"
    /\ observed.argv = <<Linker, <<"a", ".", "o">>,
                         <<"d", "/", "l", "i", "b", "c", ".", "r", "l", "i", "b">>,
                         <<"-", "o">>>>
    /\ ~observed.result.some
----------------------------------------------------------------------------
(* Claims about the proxy driver, checked under SpecProxy and              *)
(* SpecProxyFair                                                            *)

\* The value invoke_cargo_build returned.
Returned == driver.pc = "returned"

ReturnedOk == Returned /\ driver.result.value.ok

ReturnedErr(kinds) ==
    /\ Returned
    /\ ~driver.result.value.ok
    /\ driver.result.value.error.kind \in kinds

\* C24: invoke_cargo_build returns Ok only if cargo exited with code 0.
\* When try_wait reports any other status it returns a CargoBuildFailure;
\* the reader threads, if the output is captured, have both been joined by
\* then, and the failure carries everything cargo wrote to its stdout and
\* to its stderr.
C24_OkOnlyAfterExitZero ==
    /\ ReturnedOk =>
          /\ cargo_process.state = "exited"
          /\ cargo_process.code = Some(0)
    /\ (Returned /\ driver.status.some /\ driver.status.value # Some(0)) =>
          /\ ReturnedErr({"CargoBuildFailure"})
          /\ \A stream \in Streams :
                output_threads[stream].started => output_threads[stream].finished
          /\ driver.capture_output =>
                /\ driver.result.value.error.stdout = cargo_process.stdout
                /\ driver.result.value.error.stderr = cargo_process.stderr
    /\ (Returned /\ cargo_process.state = "exited" /\ cargo_process.code # Some(0)) =>
          ~driver.result.value.ok

\* C24 witness: cargo wrote to its stdout and to its stderr and exited
\* with code 1; the failure returned carries both.
C24_Witness ==
    /\ ReturnedErr({"CargoBuildFailure"})
    /\ cargo_process.code = Some(1)
    /\ driver.result.value.error.stdout = <<<<"stdout", 1>>>>
    /\ driver.result.value.error.stderr = <<<<"stderr", 1>>>>

\* The connections whose handler's handle_request returned an error.
FailedHandlers ==
    {c \in Connections :
        connections[c].response.some /\ ~connections[c].response.value.ok}

\* C25: a handler error fails the run.  In every interleaving of the
\* handler threads, cargo and the loop, if the handle_request of some
\* handler has returned an error then invoke_cargo_build does not return
\* Ok; it never returns Ok with an error left in the error channel.
C25_HandlerErrorFailsRun ==
    ReturnedOk => FailedHandlers = {} /\ channels.errors = <<>>

\* C25 witness: the handler of c1 failed and answered GiveUp, cargo exited
\* with a failure, and the loop saw the exit before the error was
\* forwarded: the run failed with the CargoBuildFailure.
C25_Witness ==
    /\ ReturnedErr({"CargoBuildFailure"})
    /\ "c1" \in FailedHandlers
    /\ connections["c1"].stage = "forward"
    /\ connections["c1"].writes = <<[response |-> GiveUp, delivered |-> TRUE]>>

\* C25 witness of the other order: the error of the handler of c1 came
\* through the channel and is what the run returned.
C25_WitnessForwarded ==
    /\ ReturnedErr({"handle_request"})
    /\ driver.result.value.error = HandlerError("c1")
    /\ connections["c1"].forwarded

\* The connections that were given a handler thread.
Handled ==
    {c \in Connections :
        connections[c].stage \in {"handle_request", "write", "forward", "done"}}

\* What a connection is to be answered, given what handle_request
\* returned.
DueResponse(c) ==
    IF c \in FailedHandlers THEN GiveUp
    ELSE connections[c].response.value.value

AbortPending ==
    /\ channels.abort
    /\ cargo_process.state = "running"
    /\ ~Returned

\* C27, as claimed: once the UI has sent on abort_sender while cargo is
\* still running, the loop eventually observes the signal and calls kill
\* on the cargo process, and invoke_cargo_build then eventually returns.
C27_AbortKillsCargo ==
    [](AbortPending => <>(driver.kill_called /\ <>Returned))

\* C27, amended: once the UI has sent on abort_sender while cargo is
\* running and the loop has not returned, invoke_cargo_build eventually
\* returns.  When the loop comes to probe abort_recv with the signal
\* there it calls kill, and cargo is not running after that.  Where the
\* function returns with the signal still in the channel and kill never
\* called, try_wait reported that cargo had exited by itself or an
\* operational error ended the loop.
C27_AbortEndsTheLoop ==
    /\ [](AbortPending => <>Returned)
    /\ [](driver.pc = "abort_recv" /\ channels.abort => <>driver.kill_called)
    /\ [](driver.kill_called => cargo_process.state = "exited")
    /\ [](Returned /\ ~driver.kill_called /\ channels.abort =>
            \/ driver.status.some /\ driver.status.value.some
            \/ ReturnedErr({"handle_request", "write_to_stream",
                            "Malformed request from subprocess", "thread spawn"}))

\* C27 witness: the signal was sent while cargo was running, the loop
\* killed cargo, try_wait reported it, and the function returned the
\* failure of a cargo that exited on a signal.
C27_Witness ==
    /\ driver.kill_called
    /\ cargo_process.killed
    /\ cargo_process.code = Nothing
    /\ driver.status = Some(Nothing)
    /\ ReturnedErr({"CargoBuildFailure"})

\* C28: operational errors abort the run with the cargo process killed.
\* Whenever invoke_cargo_build returns an error it met while cargo was
\* running (a handler error from the error channel, a malformed request, a
\* failure to spawn a handler thread), cargo has been killed by the time
\* the function returns: it is not running any more.
C28_ErrorReturnKillsCargo ==
    ReturnedErr({"handle_request", "write_to_stream",
                 "Malformed request from subprocess", "thread spawn"})
       => cargo_process.state = "exited"
----------------------------------------------------------------------------
(* Claims about the problems screen, checked under SpecUi.                 *)

\* The mode on top of the stack.
Top(modes) == IF modes = <<>> THEN None ELSE modes[Len(modes)]

\* The step is handle_key on Enter or Space in the mode given.
EnterPressedIn(mode) ==
    /\ observed'.op = "handle_key"
    /\ observed'.key \in {" ", "Enter"}
    /\ Top(ui.modes) = mode

\* The problem the screen has selected: the one at problem_index of the
\* deduplicated problems, if there is one.
SelectedProblem ==
    LET shown == deduplicated_into_iter(problems)
    IN IF ui.problem_index < Len(shown) THEN Some(shown[ui.problem_index + 1])
       ELSE Nothing

\* The edits of the selected problem.
SelectedEdits ==
    IF SelectedProblem.some THEN fixes_for_problem(SelectedProblem.value.problem)
    ELSE <<>>

\* C29: in SelectProblem mode, Enter or Space pushes SelectEdit and sets
\* edit_index to 0 if the selected problem has at least one edit; if it has
\* none (or no problem is selected) the key fails with the "no edits" error
\* and the mode stack, problem_index and edit_index stay as they are.
C29_EnterShowsEditsOrFails ==
    [][EnterPressedIn("SelectProblem") =>
          IF SelectedEdits # <<>>
          THEN /\ observed'.result = Ok(<<>>)
               /\ ui'.modes = Append(ui.modes, "SelectEdit")
               /\ ui'.edit_index = 0
               /\ ui'.problem_index = ui.problem_index
          ELSE /\ observed'.result = Err(NoEditsError)
               /\ ui'.modes = ui.modes
               /\ ui'.problem_index = ui.problem_index
               /\ ui'.edit_index = ui.edit_index]_vars

\* The screen shows the edits of a problem after Enter or Space.
C29_Witness ==
    /\ observed.op = "handle_key"
    /\ observed.key \in {" ", "Enter"}
    /\ observed.result = Ok(<<>>)
    /\ Top(ui.modes) = "SelectEdit"
    /\ ui.edit_index = 0
    /\ SelectedEdits # <<>>

\* Enter or Space has failed on a problem without edits.
C29_WitnessNoEdits ==
    /\ observed.op = "handle_key"
    /\ observed.key \in {" ", "Enter"}
    /\ observed.result = Err(NoEditsError)
    /\ SelectedProblem.some
    /\ Top(ui.modes) = "SelectProblem"

\* The edit the screen has selected, if edit_index selects one.
SelectedEdit ==
    IF ui.edit_index < Len(SelectedEdits) THEN Some(SelectedEdits[ui.edit_index + 1])
    ELSE Nothing

\* After the step the mode on top is popped, SelectProblem is on top, and
\* problem_index is smaller than the number of problems in the store unless
\* the store is empty.
PoppedToSelectProblem ==
    /\ ui'.modes = Pop(ui.modes)
    /\ Top(ui'.modes) = "SelectProblem"
    /\ problems' # <<>> => ui'.problem_index < len(problems')
    /\ ui'.problem_index \in {ui.problem_index, 0}
    /\ ui'.problem_index = 0 /\ ui.problem_index # 0
          => ui.problem_index >= len(problems')

\* The selected edit is applied: the configuration has it, and the problem
\* it belongs to is no longer at its place in the store.
SelectedEditApplied ==
    SelectedEdit.some =>
        /\ ui'.toml = apply(ui.toml, SelectedEdit.value)
        /\ Len(problems') < Len(problems) + Len(SelectedEdit.value.replacement_problems)

\* C30 as stated: in SelectEdit mode, Enter or Space applies the selected
\* edit and pops back to SelectProblem, and problem_index, reset to 0 if it
\* is past the end, is then smaller than the number of problems of a store
\* that is not empty.
C30_EnterAppliesAndPops ==
    [][EnterPressedIn("SelectEdit") =>
          /\ SelectedEditApplied
          /\ PoppedToSelectProblem]_vars

\* C30, amended: in SelectEdit mode, Enter or Space applies the selected
\* edit, if there is one, and unless that fails pops back to SelectProblem
\* with problem_index reset to 0 if it is past the end of the store, so
\* that it is smaller than the number of problems of a store that is not
\* empty; if reading the configuration, applying the edit or writing the
\* configuration fails, the key fails with that error and the mode stack,
\* both indices, the configuration and the store stay as they are.
C30_EnterAppliesThenPops ==
    [][EnterPressedIn("SelectEdit") =>
          IF observed'.result.ok
          THEN /\ SelectedEditApplied
               /\ ~SelectedEdit.some => ui'.toml = ui.toml /\ problems' = problems
               /\ PoppedToSelectProblem
          ELSE /\ SelectedEdit.some
               /\ observed'.result \in {Err(EditError(failure)) :
                                          failure \in Failures \ {None}}
               /\ observed'.result = Err(EditError("apply"))
                     => SelectedEdit.value.fallible
               /\ ui' = ui
               /\ problems' = problems]_vars

\* An edit has been applied from SelectEdit and the screen is back in
\* SelectProblem.
C30_Witness ==
    /\ observed.op = "handle_key"
    /\ observed.key \in {" ", "Enter"}
    /\ observed.result = Ok(<<>>)
    /\ ui.modes = <<"SelectProblem">>
    /\ ~ui.accept_single_enabled
    /\ ui.toml # {}
    /\ problems # <<>>
    /\ ui.problem_index = 0

\* Applying the selected edit has failed and the screen is still in
\* SelectEdit.
C30_WitnessFailure ==
    /\ observed.op = "handle_key"
    /\ observed.key \in {" ", "Enter"}
    /\ observed.result = Err(EditError("apply"))
    /\ Top(ui.modes) = "SelectEdit"

\* The step is handle_key on the key given.
KeyIs(key) == observed'.op = "handle_key" /\ observed'.key = key

\* C31: in every mode the key q clears the whole stack of modes, which
\* makes quit_requested true, and once the stack is empty no step (a key,
\* a problem added, the ProblemsAdded event) puts a mode on it again: a
\* request to quit is never withdrawn.
C31_QuitClearsForGood ==
    [][/\ KeyIs("q") => quit_requested(ui')
       /\ quit_requested(ui) => quit_requested(ui')]_vars

\* After the request to quit, the key h was pressed and the stack is still
\* empty.
C31_Witness ==
    /\ quit_requested(ui)
    /\ observed.op = "handle_key"
    /\ observed.key = "h"

\* The step leaves all of the screen but the stack of modes, and the
\* problem store, as they are.
OnlyModesChange ==
    /\ ui' = [ui EXCEPT !.modes = ui'.modes]
    /\ problems' = problems

\* C32 as stated: in every mode Esc takes the topmost mode off the stack
\* and changes nothing else (problem_index, edit_index, the auto-accept
\* flag and the problem store).
C32_EscPops ==
    [][KeyIs("Esc") /\ ~quit_requested(ui) =>
          /\ ui'.modes = Pop(ui.modes)
          /\ OnlyModesChange]_vars

\* C32, amended: Esc takes the topmost mode off the stack when there is a
\* mode beneath it, and does nothing when the stack holds one mode; in
\* both cases nothing else changes.
C32_EscPopsAboveTheBottom ==
    [][KeyIs("Esc") /\ ~quit_requested(ui) =>
          /\ ui'.modes = IF Len(ui.modes) >= 2 THEN Pop(ui.modes) ELSE ui.modes
          /\ OnlyModesChange]_vars

\* Esc was pressed and the screen is back in SelectProblem, with the edit
\* selection that Down had moved in SelectEdit still where it was.
C32_Witness ==
    /\ observed.op = "handle_key"
    /\ observed.key = "Esc"
    /\ ui.modes = <<"SelectProblem">>
    /\ ui.edit_index = 1

\* How many times the mode is on the stack.
Occurrences(modes, mode) == Cardinality({i \in DOMAIN modes : modes[i] = mode})

\* The shape of the stack of modes: empty, or SelectProblem at the bottom
\* and nowhere else, with at most one SelectEdit and at most one
\* PromptAutoAccept above it.
ModesShape(modes) ==
    modes # <<>> =>
       /\ modes[1] = "SelectProblem"
       /\ Occurrences(modes, "SelectProblem") = 1
       /\ Occurrences(modes, "SelectEdit") <= 1
       /\ Occurrences(modes, "PromptAutoAccept") <= 1

\* C36: the stack of modes starts as [SelectProblem]; whenever it is not
\* empty its bottom is SelectProblem, and it holds at most one SelectEdit
\* and at most one PromptAutoAccept; the only step that empties it is the
\* key q, so Esc never takes the last mode off.
C36_ModesKeepTheirShape ==
    /\ ui.modes = <<"SelectProblem">>
    /\ [][/\ ModesShape(ui'.modes)
          /\ ~quit_requested(ui) /\ quit_requested(ui') => KeyIs("q")]_vars

\* PromptAutoAccept is on the stack, above SelectProblem, after the key a.
C36_Witness ==
    /\ ui.modes = <<"SelectProblem", "PromptAutoAccept">>
    /\ observed.op = "handle_key"
    /\ observed.key = "a"

\* The step is handle_key on Up or Down in a mode that has a selection.
SelectionMoved ==
    /\ observed'.op = "handle_key"
    /\ observed'.key \in {"Up", "Down"}
    /\ Top(ui.modes) \in {"SelectProblem", "SelectEdit"}

\* The length of the list that Up and Down move in: the store's in
\* SelectProblem, the selected problem's edits in SelectEdit.
SelectionLen ==
    IF Top(ui.modes) = "SelectProblem" THEN len(problems)
    ELSE Len(edits(ui, problems))

\* One step up or down from the counter, around the ends of 0..length-1.
Wrapped(counter, key, length) ==
    IF key = "Up" THEN (IF counter = 0 THEN length - 1 ELSE counter - 1)
    ELSE (IF counter = length - 1 THEN 0 ELSE counter + 1)

\* The counter after an Up or Down step is in range, one step from where
\* it was if that was in range.
MovedByOne(before, after) ==
    /\ after \in 0 .. (SelectionLen - 1)
    /\ before < SelectionLen => after = Wrapped(before, observed'.key, SelectionLen)

\* C38 as stated: Up and Down never crash the screen, whatever the length
\* of the list (an empty problem store included), and for a list that is
\* not empty they move the counter by one within 0..len-1, around the ends.
C38_UpDownNeverCrash ==
    [][SelectionMoved =>
          /\ observed'.result # Panic
          /\ SelectionLen > 0 =>
                IF Top(ui.modes) = "SelectProblem"
                THEN MovedByOne(ui.problem_index, ui'.problem_index)
                ELSE MovedByOne(ui.edit_index, ui'.edit_index)]_vars

\* The part of C38 that the code keeps: over a list that is not empty Up
\* and Down return Ok and move the counter by one within 0..len-1.
C38_InRangeWhenNotEmpty ==
    [][SelectionMoved /\ SelectionLen > 0 =>
          /\ observed'.result = Ok(<<>>)
          /\ IF Top(ui.modes) = "SelectProblem"
             THEN MovedByOne(ui.problem_index, ui'.problem_index)
             ELSE MovedByOne(ui.edit_index, ui'.edit_index)]_vars

\* C37: the selection points at a problem that is shown: whenever the
\* deduplicated list of problems is not empty, problem_index is smaller
\* than the number of its entries.
C37_SelectionIsShown ==
    deduplicated_into_iter(problems) # <<>> =>
       ui.problem_index < Len(deduplicated_into_iter(problems))

\* C37 over the stores without duplicates, where the deduplicated list is
\* as long as the store.
C37_SelectionIsShownWithoutDuplicates ==
    /\ problems # <<>>
    /\ Len(deduplicated_into_iter(problems)) = Len(problems)
    => ui.problem_index < Len(problems)

\* The step takes the problem, or one of its duplicates, out of the store.
Removed(problem) ==
    Occurrences(problems', problem) < Occurrences(problems, problem)

\* One of the problem's edits is in the configuration file after the step.
EditWritten(problem) ==
    \E i \in DOMAIN fixes_for_problem(problem) :
       fixes_for_problem(problem)[i].title \in ui'.toml

\* C39: the problem store and the configuration file stay consistent: a
\* step takes a problem out of the store only if an edit of the problem is
\* in the configuration file after the step, and a step in which applying
\* edits returns an error takes no problem out without that.
C39_ResolvedOnlyIfWritten ==
    [][\A i \in DOMAIN problems :
          Removed(problems[i]) => EditWritten(problems[i])]_vars

\* The part of C39 that the code keeps: a selected edit that fails to apply
\* leaves the store and the configuration file as they are.
C39_SelectedEditFailsCleanly ==
    [][EnterPressedIn("SelectEdit") /\ ~observed'.result.ok =>
          problems' = problems /\ ui'.toml = ui.toml]_vars

\* The step is accept_all_single_edits: Enter in PromptAutoAccept, or the
\* ProblemsAdded event with auto-accept enabled.
AutoAccepted ==
    \/ /\ observed'.op = "handle_key"
       /\ observed'.key = "Enter"
       /\ Top(ui.modes) = "PromptAutoAccept"
    \/ /\ observed'.op = "problems_added"
       /\ ui.accept_single_enabled

\* The problem has exactly one edit.
HasSingleEdit(problem) == Len(fixes_for_problem(problem)) = 1

\* The problem has no edit, or more than one.
HasOtherEdits(problem) == ~HasSingleEdit(problem)

\* C33: when accept_all_single_edits returns Ok, no problem with exactly
\* one edit is left in the store, every problem with no edit or with more
\* than one is still there, in its order, the edits were applied in the
\* order of their problems in the store, and the configuration file holds
\* all of them, written after the last.
C33_AutoAcceptResolvesSingleEdits ==
    [][AutoAccepted /\ observed'.result.ok =>
          /\ \A i \in DOMAIN problems' : ~HasSingleEdit(problems'[i])
          /\ problems' = SelectSeq(problems, HasOtherEdits)
          /\ AcceptLoop(problems, ui.toml, None).applied
                = SelectSeq(problems, HasSingleEdit)
          /\ ui'.toml = ui.toml \cup
                {fixes_for_problem(problems[i])[1].title :
                    i \in {j \in DOMAIN problems : HasSingleEdit(problems[j])}}]_vars

\* Auto-accept has just resolved the disallowed API usage and left the
\* choice of a sandbox, which has two edits, in the store.
C33_Witness ==
    /\ observed.op = "handle_key"
    /\ observed.key = "Enter"
    /\ observed.result = Ok(<<>>)
    /\ ui.accept_single_enabled
    /\ ui.modes = <<"SelectProblem">>
    /\ "AllowApiUsage" \in ui.toml
    /\ problems = <<Problem("SelectSandbox", <<>>)>>

\* The step puts the problem into the store.
Added(problem) ==
    Occurrences(problems', problem) > Occurrences(problems, problem)

\* C34: whenever an edit is applied, by Enter in SelectEdit or by
\* auto-accept, its problem is replaced in the store by the edit's
\* replacement_problems(), so the follow-up problems are in the store
\* afterwards, and the store is then scanned for the problems whose only
\* edit would change nothing.
C34_AppliedEditsLeaveTheirFollowUps ==
    [][/\ EnterPressedIn("SelectEdit") /\ observed'.result.ok /\ SelectedEdit.some =>
             problems' = resolve_problems_with_empty_diff(
                            replace(problems, SelectedProblem.value.index,
                                    SelectedEdit.value.replacement_problems),
                            ui'.toml)
       /\ AutoAccepted /\ observed'.result.ok =>
             \A i \in DOMAIN problems :
                HasSingleEdit(problems[i]) =>
                   LET follow_ups ==
                          fixes_for_problem(problems[i])[1].replacement_problems
                   IN \A k \in DOMAIN follow_ups : Added(follow_ups[k])]_vars

\* The part of C34 that the code keeps: an edit applied by Enter in
\* SelectEdit leaves its follow-up problems in the place of its problem.
C34_SelectedEditLeavesItsFollowUps ==
    [][EnterPressedIn("SelectEdit") /\ observed'.result.ok /\ SelectedEdit.some =>
          problems' = resolve_problems_with_empty_diff(
                         replace(problems, SelectedProblem.value.index,
                                 SelectedEdit.value.replacement_problems),
                         ui'.toml)]_vars

----------------------------------------------------------------------------
(* Claims about the loop of FullTermUi::run, checked under SpecRunFair.    *)

\* Every iteration of the loop that starts with quit requested aborts all
\* the problems in the store and sends on abort_sender.
EveryIterationAborts ==
    [][observed'.op = "run_loop" /\ quit_requested(ui) =>
          /\ ui'.aborted = Len(problems)
          /\ channels'.abort]_vars

\* Problems that are in the store unaborted while quit is requested and the
\* loop runs are aborted later, unless run returns first.
LateProblemsAreAborted ==
    (quit_requested(ui) /\ ui.pc # "returned" /\ ui.aborted < Len(problems))
       ~> (ui.aborted = Len(problems) \/ ui.pc = "returned")

\* run has returned after quit was requested.
ReturnedAfterQuit == quit_requested(ui) /\ ui.pc = "returned"

----------------------------------------------------------------------------
(* Claims about grouping by crate and API, checked under SpecGroup.        *)

\* usage.usages.first_key_value(): the first permission of the usages.
FirstPermission(usage) ==
    IF DOMAIN usage.usages = {} THEN Nothing
    ELSE Some(Ascending(DOMAIN usage.usages)[1])

\* The usage under the permission in the grouped problem comes from a
\* problem of the input that has the grouped problem's crate and first
\* permission.
FromSameCrateAndApi(grouped, permission, usage) ==
    \E i \in DOMAIN observed.input :
       LET given == observed.input[i].v
       IN /\ given.crate_sel = grouped.crate_sel
          /\ FirstPermission(given) = FirstPermission(grouped)
          /\ permission \in DOMAIN given.usages
          /\ \E j \in DOMAIN given.usages[permission] :
                given.usages[permission][j] = usage

\* What C40 says of the result of grouped_by_type_crate_and_api.
MergedBySameCrateAndApi ==
    /\ \A i \in DOMAIN observed.output :
          \A permission \in DOMAIN observed.output[i].v.usages :
             \A j \in DOMAIN observed.output[i].v.usages[permission] :
                FromSameCrateAndApi(observed.output[i].v, permission,
                                    observed.output[i].v.usages[permission][j])
    /\ \A i, j \in DOMAIN observed.output :
          /\ observed.output[i].v.crate_sel = observed.output[j].v.crate_sel
          /\ FirstPermission(observed.output[i].v) = FirstPermission(observed.output[j].v)
          => i = j

\* C40: grouped_by_type_crate_and_api merges two DisallowedApiUsage
\* problems only if they have the same crate and the same first
\* permission, also for names that contain '-': every usage in a problem
\* of the result comes from a problem of that crate and that first
\* permission, and no two problems of the result share both.
C40_MergesOnlySameCrateAndApi ==
    observed.op = "grouped_by_type_crate_and_api" => MergedBySameCrateAndApi

\* The name contains '-'.
HasDash(name) == \E i \in DOMAIN name : name[i] = "-"

\* The part of C40 that the code keeps: over the lists in which no package
\* and no permission has a '-' in its name.
C40_MergesOnlySameCrateAndApiWithoutDash ==
    /\ observed.op = "grouped_by_type_crate_and_api"
    /\ \A i \in DOMAIN observed.input :
          /\ ~HasDash(observed.input[i].v.crate_sel.pkg_id.name)
          /\ \A permission \in DOMAIN observed.input[i].v.usages : ~HasDash(permission)
    => MergedBySameCrateAndApi

====
